---- MODULE Spec2Model ----
(***************************************************************************)
(* A model of the svg crate's event tokenizer (events::parser::Parser),    *)
(* tree builder (node::parser::Parser), document flattening                *)
(* (Document::to_events) and composer (parser::writer::Writer).            *)
(*                                                                         *)
(* Strings are sequences of one-character strings.  Events and nodes are   *)
(* records; an attribute map is a function from names to values.           *)
(***************************************************************************)
EXTENDS Integers, Sequences, FiniteSets, TLC

VARIABLES
    text,                   \* the input buffer the Reader borrows
    offset,                 \* Reader cursor: number of characters consumed
    events,                 \* the event sequence handed to / produced for the client
    document,               \* Result<Document> of the tree builder, or NotBuilt
    destination,            \* the composer's output sink
    initial_event_written,  \* Writer::initial_event_written
    written,                \* number of events the client has handed to write_event
    pc                      \* position of the client program

vars ==
    <<text, offset, events, document, destination, initial_event_written, written,
      pc>>

(***************************************************************************)
(* Bounds of the model.                                                    *)
(***************************************************************************)
MaxEvents == 4
MaxFrags == 5

(***************************************************************************)
(* Events (events/mod.rs) and nodes (node/mod.rs).                         *)
(***************************************************************************)
NoAttributes == << >>

Tag(name, kind, attributes) ==
    [type |-> "Tag", name |-> name, kind |-> kind, attributes |-> attributes]
Text(content) == [type |-> "Text", content |-> content]
Comment(content) == [type |-> "Comment", content |-> content]
UnpaddedComment(content) == [type |-> "UnpaddedComment", content |-> content]
Declaration(content) == [type |-> "Declaration", content |-> content]
Instruction(content) == [type |-> "Instruction", content |-> content]

GenericElement(name, attributes, children) ==
    [node |-> "Element", name |-> name, attributes |-> attributes,
     children |-> children]
NodeText(content) == [node |-> "Text", content |-> content]
NodeComment(content) == [node |-> "Comment", content |-> content]
NodeUnpaddedComment(content) == [node |-> "UnpaddedComment", content |-> content]
NodeDeclaration(content) == [node |-> "Declaration", content |-> content]
NodeInstruction(content) == [node |-> "Instruction", content |-> content]

Document(prolog, svg, misc_followers) ==
    [prolog |-> prolog, svg |-> svg, misc_followers |-> misc_followers]

IsTag(e, kinds) == e.type = "Tag" /\ e.kind \in kinds

(***************************************************************************)
(* Results.  `next` is the position of the Peekable event iterator (the    *)
(* index of the event the next call of peek() or next() yields) when the   *)
(* function returns.                                                       *)
(***************************************************************************)
Ok(value, next) == [ok |-> TRUE, value |-> value, next |-> next]
Error(message) == [message |-> message]
Raise(message, next) == [ok |-> FALSE, error |-> Error(message), next |-> next]

(***************************************************************************)
(* node/parser/mod.rs: the tree builder.                                   *)
(***************************************************************************)
RECURSIVE process_prolog(_, _, _)
\* Plausible slips in process_prolog: the End arm folded into the `break`
\* arm, and end of input treated as `break`.
process_prolog_end_breaks(evs, i, prolog) ==
    IF i > Len(evs) THEN Raise(<<"no tags in document">>, i)
    ELSE IF evs[i].type = "Tag" THEN Ok(prolog, i)
    ELSE process_prolog(evs, i + 1,
                        Append(prolog, [node |-> evs[i].type,
                                        content |-> evs[i].content]))

process_prolog_eof_breaks(evs, i, prolog) ==
    IF i > Len(evs) \/ IsTag(evs[i], {"Start", "Empty"}) THEN Ok(prolog, i)
    ELSE IF IsTag(evs[i], {"End"})
    THEN Raise(<<"found </{}> tag before <{}> tag", evs[i].name, evs[i].name>>, i)
    ELSE process_prolog(evs, i + 1,
                        Append(prolog, [node |-> evs[i].type,
                                        content |-> evs[i].content]))

process_prolog(evs, i, prolog) ==
    IF i > Len(evs) THEN Raise(<<"no tags in document">>, i)
    ELSE LET e == evs[i] IN
        CASE IsTag(e, {"Start", "Empty"}) -> Ok(prolog, i)
          [] IsTag(e, {"End"}) ->
                Raise(<<"found </{}> tag before <{}> tag", e.name, e.name>>, i)
          [] e.type = "Text" ->
                process_prolog(evs, i + 1, Append(prolog, NodeText(e.content)))
          [] e.type = "Comment" ->
                process_prolog(evs, i + 1, Append(prolog, NodeComment(e.content)))
          [] e.type = "UnpaddedComment" ->
                process_prolog(evs, i + 1,
                               Append(prolog, NodeUnpaddedComment(e.content)))
          [] e.type = "Declaration" ->
                process_prolog(evs, i + 1,
                               Append(prolog, NodeDeclaration(e.content)))
          [] e.type = "Instruction" ->
                process_prolog(evs, i + 1,
                               Append(prolog, NodeInstruction(e.content)))

RECURSIVE process_misc_followers(_, _, _)
\* Plausible slips in process_misc_followers: only opening tags rejected
\* (End tags skipped), and Empty tags kept as trailing elements.
process_misc_followers_skip_end(evs, i, followers) ==
    IF i > Len(evs) THEN Ok(followers, i)
    ELSE IF IsTag(evs[i], {"Start", "Empty"})
    THEN Raise(<<"unexpected second top-level tag">>, i + 1)
    ELSE IF IsTag(evs[i], {"End"})
    THEN process_misc_followers(evs, i + 1, followers)
    ELSE process_misc_followers(evs, i + 1,
                                Append(followers, [node |-> evs[i].type,
                                                   content |-> evs[i].content]))

process_misc_followers_keep_empty(evs, i, followers) ==
    IF i > Len(evs) THEN Ok(followers, i)
    ELSE IF IsTag(evs[i], {"Start", "End"})
    THEN Raise(<<"unexpected second top-level tag">>, i + 1)
    ELSE IF IsTag(evs[i], {"Empty"})
    THEN process_misc_followers(evs, i + 1,
            Append(followers,
                   GenericElement(evs[i].name, evs[i].attributes, <<>>)))
    ELSE process_misc_followers(evs, i + 1,
                                Append(followers, [node |-> evs[i].type,
                                                   content |-> evs[i].content]))

\* A plausible slip: `if let` for `while let`, one event is taken at most.
process_misc_followers_if_let(evs, i, followers) ==
    IF i > Len(evs) THEN Ok(followers, i)
    ELSE IF evs[i].type = "Tag"
    THEN Raise(<<"unexpected second top-level tag">>, i + 1)
    ELSE Ok(Append(followers, [node |-> evs[i].type,
                               content |-> evs[i].content]), i + 1)

process_misc_followers(evs, i, followers) ==
    IF i > Len(evs) THEN Ok(followers, i)
    ELSE LET e == evs[i] IN
        CASE e.type = "Tag" ->
                Raise(<<"unexpected second top-level tag">>, i + 1)
          [] e.type = "Text" ->
                process_misc_followers(evs, i + 1,
                                       Append(followers, NodeText(e.content)))
          [] e.type = "Comment" ->
                process_misc_followers(evs, i + 1,
                                       Append(followers, NodeComment(e.content)))
          [] e.type = "UnpaddedComment" ->
                process_misc_followers(evs, i + 1,
                    Append(followers, NodeUnpaddedComment(e.content)))
          [] e.type = "Declaration" ->
                process_misc_followers(evs, i + 1,
                    Append(followers, NodeDeclaration(e.content)))
          [] e.type = "Instruction" ->
                process_misc_followers(evs, i + 1,
                    Append(followers, NodeInstruction(e.content)))

RECURSIVE process_node(_, _)
RECURSIVE process_tag(_, _)
RECURSIVE process_children(_, _, _)

process_node(evs, i) ==
    IF i > Len(evs) THEN Raise(<<"expected more nodes">>, i)
    ELSE LET e == evs[i] IN
        CASE IsTag(e, {"Start", "Empty"}) -> process_tag(evs, i)
          [] IsTag(e, {"End"}) ->
                Raise(<<"found </{}> tag before <{}> tag", e.name, e.name>>, i)
          [] e.type = "Text" -> Ok(NodeText(e.content), i + 1)
          [] e.type = "Comment" -> Ok(NodeComment(e.content), i + 1)
          [] e.type = "UnpaddedComment" ->
                Ok(NodeUnpaddedComment(e.content), i + 1)
          [] e.type = "Declaration" -> Ok(NodeDeclaration(e.content), i + 1)
          [] e.type = "Instruction" -> Ok(NodeInstruction(e.content), i + 1)

\* The `while !matches!(peek, End | None) { children.push(process_node()?) }`
\* loop of process_tag.
\* A plausible slip in the loop: a child is pushed at the front of the list.
RECURSIVE process_children_push_front(_, _, _)
process_children_push_front(evs, i, children) ==
    IF i > Len(evs) \/ IsTag(evs[i], {"End"}) THEN Ok(children, i)
    ELSE LET n == process_node(evs, i) IN
        IF ~n.ok THEN n
        ELSE process_children_push_front(evs, n.next, <<n.value>> \o children)

\* A plausible slip: the loop goes on until the events are exhausted, an
\* End tag does not stop it.
process_children_until_none(evs, i, children) ==
    IF i > Len(evs) THEN Ok(children, i)
    ELSE LET n == process_node(evs, i) IN
        IF ~n.ok THEN n
        ELSE process_children(evs, n.next, Append(children, n.value))

process_children(evs, i, children) ==
    IF i > Len(evs) \/ IsTag(evs[i], {"End"}) THEN Ok(children, i)
    ELSE LET n == process_node(evs, i) IN
        IF ~n.ok THEN n
        ELSE process_children(evs, n.next, Append(children, n.value))

\* Plausible slips in process_tag: the closing name is not compared, and
\* end of input is taken as an implicit closing tag.
process_tag_any_close(evs, i) ==
    IF i > Len(evs) THEN Raise(<<"expected a tag">>, i)
    ELSE LET e == evs[i] IN
        IF IsTag(e, {"Empty"})
        THEN Ok(GenericElement(e.name, e.attributes, <<>>), i + 1)
        ELSE IF IsTag(e, {"Start"})
        THEN LET c == process_children(evs, i + 1, <<>>) IN
            IF ~c.ok THEN c
            ELSE IF c.next > Len(evs)
            THEN Raise(<<"missing </{}>", e.name>>, c.next)
            ELSE Ok(GenericElement(e.name, e.attributes, c.value), c.next + 1)
        ELSE Raise(<<"expected a tag, found event {:?}", e.type>>, i + 1)

process_tag_eof_close(evs, i) ==
    IF i > Len(evs) THEN Raise(<<"expected a tag">>, i)
    ELSE LET e == evs[i] IN
        IF IsTag(e, {"Empty"})
        THEN Ok(GenericElement(e.name, e.attributes, <<>>), i + 1)
        ELSE IF IsTag(e, {"Start"})
        THEN LET c == process_children(evs, i + 1, <<>>) IN
            IF ~c.ok THEN c
            ELSE IF c.next > Len(evs)
            THEN Ok(GenericElement(e.name, e.attributes, c.value), c.next)
            ELSE IF evs[c.next].name = e.name
            THEN Ok(GenericElement(e.name, e.attributes, c.value), c.next + 1)
            ELSE Raise(<<"expected </{}>, found </{}>", e.name, evs[c.next].name>>,
                       c.next + 1)
        ELSE Raise(<<"expected a tag, found event {:?}", e.type>>, i + 1)

process_tag(evs, i) ==
    IF i > Len(evs) THEN Raise(<<"expected a tag">>, i)
    ELSE LET e == evs[i] IN
        IF IsTag(e, {"Empty"})
        THEN Ok(GenericElement(e.name, e.attributes, <<>>), i + 1)
        ELSE IF IsTag(e, {"Start"})
        THEN LET c == process_children(evs, i + 1, <<>>) IN
            IF ~c.ok THEN c
            ELSE IF c.next > Len(evs)
            THEN Raise(<<"missing </{}>", e.name>>, c.next)
            ELSE LET closing == evs[c.next] IN
                IF IsTag(closing, {"End"}) /\ closing.name = e.name
                THEN Ok(GenericElement(e.name, e.attributes, c.value), c.next + 1)
                ELSE IF IsTag(closing, {"End"})
                THEN Raise(<<"expected </{}>, found </{}>", e.name, closing.name>>,
                           c.next + 1)
                ELSE Raise(<<"unreachable">>, c.next + 1)
        ELSE Raise(<<"expected a tag, found event {:?}", e.type>>, i + 1)

\* A plausible slip in process: the trailing phase is never run.
process_without_followers(evs) ==
    LET prolog == process_prolog(evs, 1, <<>>) IN
    IF ~prolog.ok THEN prolog
    ELSE LET svg == process_tag(evs, prolog.next) IN
    IF ~svg.ok THEN svg
    ELSE Ok(Document(prolog.value, svg.value, <<>>), svg.next)

\* A plausible slip: the two node lists are handed to the Document in each
\* other's place.
process_swaps_lists(evs) ==
    LET prolog == process_prolog(evs, 1, <<>>) IN
    IF ~prolog.ok THEN prolog
    ELSE LET svg == process_tag(evs, prolog.next) IN
    IF ~svg.ok THEN svg
    ELSE LET misc_followers == process_misc_followers(evs, svg.next, <<>>) IN
    IF ~misc_followers.ok THEN misc_followers
    ELSE Ok(Document(misc_followers.value, svg.value, prolog.value),
            misc_followers.next)

process(evs) ==
    LET prolog == process_prolog(evs, 1, <<>>) IN
    IF ~prolog.ok THEN prolog
    ELSE LET svg == process_tag(evs, prolog.next) IN
    IF ~svg.ok THEN svg
    ELSE LET misc_followers == process_misc_followers(evs, svg.next, <<>>) IN
    IF ~misc_followers.ok THEN misc_followers
    ELSE Ok(Document(prolog.value, svg.value, misc_followers.value),
            misc_followers.next)

\* node/mod.rs: Document::from_events
from_events(evs) == process(evs)

(***************************************************************************)
(* The Reader (events/parser/reader.rs): a cursor over the input buffer.   *)
(* `offset` counts the characters consumed.  A consume function returns    *)
(* whether its rule matched and the cursor it leaves.                      *)
(***************************************************************************)
Whitespace == {" ", "\n", "\t", "\r"}
Quotes == {"'", "\""}

RECURSIVE trim_start(_)
trim_start(s) ==
    IF s # <<>> /\ Head(s) \in Whitespace THEN trim_start(Tail(s)) ELSE s

RECURSIVE trim_end(_)
trim_end(s) ==
    IF s # <<>> /\ s[Len(s)] \in Whitespace
    THEN trim_end(SubSeq(s, 1, Len(s) - 1))
    ELSE s

trim(s) == trim_end(trim_start(s))

starts_with(content, off, pattern) ==
    /\ off >= 0
    /\ off + Len(pattern) <= Len(content)
    /\ SubSeq(content, off + 1, off + Len(pattern)) = pattern

\* The offset of the first occurrence of pattern at or after `from`, or -1.
find(content, from, pattern) ==
    LET hits == {j \in from..(Len(content) - Len(pattern)) :
                    starts_with(content, j, pattern)}
    IN  IF hits = {} THEN -1
        ELSE CHOOSE j \in hits : \A k \in hits : j <= k

Consumed(ok, off) == [ok |-> ok, offset |-> off]

peek_many(content, off, n) ==
    SubSeq(content, off + 1, IF off + n <= Len(content) THEN off + n ELSE Len(content))

RECURSIVE consume_until_char(_, _, _)
consume_until_char(content, off, target) ==
    IF off < Len(content) /\ content[off + 1] # target
    THEN consume_until_char(content, off + 1, target)
    ELSE Consumed(TRUE, off)

\* A reader that lets the closing delimiter share its dashes with the
\* opening one.
consume_comment_overlapping(content, off) ==
    IF ~starts_with(content, off, <<"<", "!", "-", "-">>) THEN Consumed(FALSE, off)
    ELSE LET j == find(content, off + 2, <<"-", "-", ">">>) IN
        IF j < 0 THEN Consumed(FALSE, Len(content)) ELSE Consumed(TRUE, j + 3)

consume_comment(content, off) ==
    IF ~starts_with(content, off, <<"<", "!", "-", "-">>) THEN Consumed(FALSE, off)
    ELSE LET j == find(content, off + 4, <<"-", "-", ">">>) IN
        IF j < 0 THEN Consumed(FALSE, Len(content)) ELSE Consumed(TRUE, j + 3)

consume_instruction(content, off) ==
    IF ~starts_with(content, off, <<"<", "?">>) THEN Consumed(FALSE, off)
    ELSE LET j == find(content, off + 2, <<"?", ">">>) IN
        IF j < 0 THEN Consumed(FALSE, Len(content)) ELSE Consumed(TRUE, j + 2)

\* Consume up to and including the next `>` that is not inside a single- or
\* double-quoted value; quote is the open quote character, or "".
RECURSIVE consume_until_close(_, _, _)
consume_until_close(content, off, quote) ==
    IF off >= Len(content) THEN Consumed(FALSE, off)
    ELSE LET c == content[off + 1] IN
        IF quote = ""
        THEN IF c = ">" THEN Consumed(TRUE, off + 1)
             ELSE IF c \in Quotes THEN consume_until_close(content, off + 1, c)
             ELSE consume_until_close(content, off + 1, "")
        ELSE IF c = quote THEN consume_until_close(content, off + 1, "")
             ELSE consume_until_close(content, off + 1, quote)

consume_declaration(content, off) ==
    IF ~starts_with(content, off, <<"<", "!">>) THEN Consumed(FALSE, off)
    ELSE consume_until_close(content, off + 2, "")

consume_tag(content, off) ==
    IF ~starts_with(content, off, <<"<">>) THEN Consumed(FALSE, off)
    ELSE consume_until_close(content, off + 1, "")

\* Reader::capture: the text the block consumed, trimmed; None when the
\* block did not match or consumed nothing but whitespace.
capture(content, off, consumed) ==
    LET captured == IF consumed.ok
                    THEN trim(SubSeq(content, off + 1, consumed.offset))
                    ELSE <<>>
    IN  [some |-> captured # <<>>, content |-> captured, offset |-> consumed.offset]

(***************************************************************************)
(* Tag::parse (node/element/tag.rs): the interior of a tag gives the name, *)
(* the kind and the attributes.                                            *)
(***************************************************************************)
RECURSIVE take_while_not(_, _)
take_while_not(s, stops) ==
    IF s = <<>> \/ Head(s) \in stops THEN <<>>
    ELSE <<Head(s)>> \o take_while_not(Tail(s), stops)

drop(s, n) == SubSeq(s, n + 1, Len(s))

RECURSIVE parse_attributes(_, _)
parse_attributes(s, attributes) ==
    LET rest == trim_start(s) IN
    IF rest = <<>> THEN [ok |-> TRUE, attributes |-> attributes]
    ELSE LET name == take_while_not(rest, Whitespace \cup {"="})
             after == drop(rest, Len(name))
         IN  IF name = <<>> \/ Len(after) < 2 \/ after[1] # "=" \/ after[2] \notin Quotes
             THEN [ok |-> FALSE, attributes |-> attributes]
             ELSE LET quote == after[2]
                      value == take_while_not(drop(after, 2), {quote})
                      tail == drop(after, 2 + Len(value))
                  IN  IF tail = <<>> THEN [ok |-> FALSE, attributes |-> attributes]
                      ELSE parse_attributes(drop(tail, 1),
                               [n \in DOMAIN attributes \cup {name} |->
                                   IF n = name THEN value ELSE attributes[n]])

\* Result<Tag>, the error positioned at `position`.
tag_parse(interior, position) ==
    LET kind == IF interior # <<>> /\ Head(interior) = "/" THEN "End"
                ELSE IF interior # <<>> /\ interior[Len(interior)] = "/" THEN "Empty"
                ELSE "Start"
        body == IF kind = "End" THEN Tail(interior)
                ELSE IF kind = "Empty" THEN SubSeq(interior, 1, Len(interior) - 1)
                ELSE interior
        name == take_while_not(trim_start(body), Whitespace)
        attributes == parse_attributes(
                        drop(trim_start(body), Len(name)), NoAttributes)
    IN  IF name = <<>>
        THEN [ok |-> FALSE,
              error |-> [position |-> position, message |-> <<"found a malformed tag name">>]]
        ELSE IF ~attributes.ok
        THEN [ok |-> FALSE,
              error |-> [position |-> position, message |-> <<"found a malformed attribute">>]]
        ELSE [ok |-> TRUE, event |-> Tag(name, kind, attributes.attributes)]

(***************************************************************************)
(* events/parser/mod.rs: the tokenizer.  A call of next returns the item   *)
(* (None, Some(Ok(event)) or Some(Err(error))) and the cursor it leaves.   *)
(***************************************************************************)
None(off) == [some |-> FALSE, offset |-> off]
SomeOk(event, off) == [some |-> TRUE, ok |-> TRUE, event |-> event, offset |-> off]
\* A plausible slip in raise!: the error is positioned at the start of the
\* input instead of at the reader's position.
SomeErr_at_start(message, off) ==
    [some |-> TRUE, ok |-> FALSE,
     error |-> [position |-> 0, message |-> message], offset |-> off]

SomeErr(message, off) ==
    [some |-> TRUE, ok |-> FALSE,
     error |-> [position |-> off, message |-> message], offset |-> off]

\* A plausible slip: the text run is cut at either angle bracket.
next_text_stops_at_close(content, off) ==
    LET stops == {j \in (off + 1)..Len(content) : content[j] \in {"<", ">"}}
        stop == IF stops = {} THEN Len(content)
                ELSE (CHOOSE j \in stops : \A k \in stops : j <= k) - 1
        c == capture(content, off, Consumed(TRUE, stop))
    IN  IF c.some THEN SomeOk(Text(c.content), c.offset) ELSE None(c.offset)

\* A plausible slip: the event holds the consumed slice, not the capture.
next_text_untrimmed(content, off) ==
    LET consumed == consume_until_char(content, off, "<")
        c == capture(content, off, consumed)
    IN  IF c.some
        THEN SomeOk(Text(SubSeq(content, off + 1, consumed.offset)), c.offset)
        ELSE None(c.offset)

\* A plausible slip: a run of nothing but whitespace is emitted as well.
next_text_emits_blank(content, off) ==
    LET consumed == consume_until_char(content, off, "<")
        c == capture(content, off, consumed)
    IN  IF c.some THEN SomeOk(Text(c.content), c.offset)
        ELSE IF consumed.offset > off
        THEN SomeOk(Text(SubSeq(content, off + 1, consumed.offset)), consumed.offset)
        ELSE None(c.offset)

next_text(content, off) ==
    LET c == capture(content, off, consume_until_char(content, off, "<")) IN
    IF c.some THEN SomeOk(Text(c.content), c.offset) ELSE None(c.offset)

strip_prefix(s, prefix) ==
    IF starts_with(s, 0, prefix)
    THEN [some |-> TRUE, content |-> drop(s, Len(prefix))]
    ELSE [some |-> FALSE]

strip_suffix(s, suffix) ==
    IF starts_with(s, Len(s) - Len(suffix), suffix)
    THEN [some |-> TRUE, content |-> SubSeq(s, 1, Len(s) - Len(suffix))]
    ELSE [some |-> FALSE]

\* Plausible slips in parse_comment_body: the suffix is looked for in the
\* whole body rather than in what is left after the prefix, and the padding
\* is stripped without being recorded.
parse_comment_body_suffix_of_body(body) ==
    LET prefix_stripped == strip_prefix(body, <<" ">>)
        suffix_stripped == strip_suffix(body, <<" ">>)
    IN  IF prefix_stripped.some /\ suffix_stripped.some
        THEN Comment(SubSeq(body, 2, Len(body) - 1))
        ELSE UnpaddedComment(body)

parse_comment_body_drops_flag(body) ==
    LET prefix_stripped == strip_prefix(body, <<" ">>) IN
    IF ~prefix_stripped.some THEN UnpaddedComment(body)
    ELSE LET stripped_content == strip_suffix(prefix_stripped.content, <<" ">>) IN
        IF stripped_content.some THEN UnpaddedComment(stripped_content.content)
        ELSE UnpaddedComment(body)

parse_comment_body(body) ==
    LET prefix_stripped == strip_prefix(body, <<" ">>) IN
    IF ~prefix_stripped.some THEN UnpaddedComment(body)
    ELSE LET stripped_content == strip_suffix(prefix_stripped.content, <<" ">>) IN
        IF stripped_content.some THEN Comment(stripped_content.content)
        ELSE UnpaddedComment(body)

\* A plausible slip: the closing delimiter is left in the comment's body.
read_comment_keeps_close(content, off) ==
    LET c == capture(content, off, consume_comment(content, off)) IN
    IF ~c.some THEN SomeErr(<<"found a malformed comment">>, c.offset)
    ELSE SomeOk(parse_comment_body(SubSeq(c.content, 5, Len(c.content))),
                c.offset)

read_comment(content, off) ==
    LET c == capture(content, off, consume_comment(content, off)) IN
    IF ~c.some THEN SomeErr(<<"found a malformed comment">>, c.offset)
    ELSE SomeOk(parse_comment_body(SubSeq(c.content, 5, Len(c.content) - 3)),
                c.offset)

\* A plausible slip: the cursor is put back where the declaration began.
read_declaration_rewinds(content, off) ==
    LET c == capture(content, off, consume_declaration(content, off)) IN
    IF ~c.some THEN SomeErr(<<"found a malformed declaration">>, c.offset)
    ELSE SomeOk(Declaration(SubSeq(c.content, 3, Len(c.content) - 1)), off)

read_declaration(content, off) ==
    LET c == capture(content, off, consume_declaration(content, off)) IN
    IF ~c.some THEN SomeErr(<<"found a malformed declaration">>, c.offset)
    ELSE SomeOk(Declaration(SubSeq(c.content, 3, Len(c.content) - 1)), c.offset)

read_instruction(content, off) ==
    LET c == capture(content, off, consume_instruction(content, off)) IN
    IF ~c.some THEN SomeErr(<<"found a malformed instruction">>, c.offset)
    ELSE SomeOk(Instruction(SubSeq(c.content, 3, Len(c.content) - 2)), c.offset)

\* A plausible slip: the closing `>` is left in what Tag::parse is given.
read_tag_keeps_close(content, off) ==
    LET c == capture(content, off, consume_tag(content, off)) IN
    IF ~c.some THEN SomeErr(<<"found a malformed tag">>, c.offset)
    ELSE LET tag == tag_parse(SubSeq(c.content, 2, Len(c.content)), c.offset) IN
        IF tag.ok THEN SomeOk(tag.event, c.offset)
        ELSE [some |-> TRUE, ok |-> FALSE, error |-> tag.error, offset |-> c.offset]

read_tag(content, off) ==
    LET c == capture(content, off, consume_tag(content, off)) IN
    IF ~c.some THEN SomeErr(<<"found a malformed tag">>, c.offset)
    ELSE LET tag == tag_parse(SubSeq(c.content, 2, Len(c.content) - 1), c.offset) IN
        IF tag.ok THEN SomeOk(tag.event, c.offset)
        ELSE [some |-> TRUE, ok |-> FALSE, error |-> tag.error, offset |-> c.offset]

\* A plausible slip in next_angle: <! is tested before <!--.
next_angle_declaration_first(content, off) ==
    LET ahead == peek_many(content, off, 4) IN
    IF ahead = <<>> THEN None(off)
    ELSE IF starts_with(ahead, 0, <<"<", "!">>) THEN read_declaration(content, off)
    ELSE IF starts_with(ahead, 0, <<"<", "!", "-", "-">>) THEN read_comment(content, off)
    ELSE IF starts_with(ahead, 0, <<"<", "?">>) THEN read_instruction(content, off)
    ELSE IF starts_with(ahead, 0, <<"<">>) THEN read_tag(content, off)
    ELSE SomeErr(<<"found an unknown sequence">>, off)

next_angle(content, off) ==
    LET ahead == peek_many(content, off, 4) IN
    IF ahead = <<>> THEN None(off)
    ELSE IF starts_with(ahead, 0, <<"<", "!", "-", "-">>) THEN read_comment(content, off)
    ELSE IF starts_with(ahead, 0, <<"<", "!">>) THEN read_declaration(content, off)
    ELSE IF starts_with(ahead, 0, <<"<", "?">>) THEN read_instruction(content, off)
    ELSE IF starts_with(ahead, 0, <<"<">>) THEN read_tag(content, off)
    ELSE SomeErr(<<"found an unknown sequence">>, off)

\* A plausible slip: the lookahead is taken where the text attempt began,
\* not where it stopped.
next_restores_cursor(content, off) ==
    LET t == next_text(content, off) IN
    IF t.some THEN t ELSE next_angle(content, off)

\* Iterator::next for Parser
next(content, off) ==
    LET t == next_text(content, off) IN
    IF t.some THEN t ELSE next_angle(content, t.offset)

\* Document::from_event_parser: collect::<Result<Vec<_>>>() stops at the
\* first error the tokenizer yields.
RECURSIVE collect(_, _, _)
collect(content, off, collected) ==
    LET item == next(content, off) IN
    IF ~item.some THEN [ok |-> TRUE, events |-> collected, offset |-> item.offset]
    ELSE IF ~item.ok
    THEN [ok |-> FALSE, events |-> collected, error |-> item.error,
          offset |-> item.offset]
    ELSE collect(content, item.offset, Append(collected, item.event))

\* A plausible slip: the events before the first error are built anyway.
from_event_parser_ok_prefix(content) ==
    from_events(collect(content, 0, <<>>).events)

\* A different design: the tokenizer's error is handed on as it is instead
\* of being rendered into the builder's message.
from_event_parser_passes_error(content) ==
    LET collected == collect(content, 0, <<>>) IN
    IF ~collected.ok
    THEN [ok |-> FALSE, error |-> collected.error,
          next |-> Len(collected.events) + 1]
    ELSE from_events(collected.events)

from_event_parser(content) ==
    LET collected == collect(content, 0, <<>>) IN
    IF ~collected.ok
    THEN Raise(<<"{}", collected.error.position, collected.error.message>>,
               Len(collected.events) + 1)
    ELSE from_events(collected.events)

(***************************************************************************)
(* Flattening: GenericElement::to_events (node/element/mod.rs),            *)
(* Node::to_events and Document::to_events (node/mod.rs).                  *)
(***************************************************************************)
RECURSIVE node_to_events(_)
RECURSIVE element_to_events(_)
RECURSIVE flat_map_to_events(_)

\* A plausible slip: the children are flattened last child first.
flat_map_to_events_reversed(nodes) ==
    IF nodes = <<>> THEN <<>>
    ELSE flat_map_to_events(Tail(nodes)) \o node_to_events(Head(nodes))

flat_map_to_events(nodes) ==
    IF nodes = <<>> THEN <<>>
    ELSE node_to_events(Head(nodes)) \o flat_map_to_events(Tail(nodes))

\* Plausible slips in to_events: the closing tag is given the element's
\* attributes, and a childless element is flattened to a Start/End pair as
\* well.
element_to_events_end_attributes(element) ==
    IF element.children = <<>>
    THEN <<Tag(element.name, "Empty", element.attributes)>>
    ELSE <<Tag(element.name, "Start", element.attributes)>>
         \o flat_map_to_events(element.children)
         \o <<Tag(element.name, "End", element.attributes)>>

element_to_events_always_pair(element) ==
    <<Tag(element.name, "Start", element.attributes)>>
    \o flat_map_to_events(element.children)
    \o <<Tag(element.name, "End", NoAttributes)>>

\* A plausible slip: the closing tag is left out.
element_to_events_no_end(element) ==
    IF element.children = <<>>
    THEN <<Tag(element.name, "Empty", element.attributes)>>
    ELSE <<Tag(element.name, "Start", element.attributes)>>
         \o flat_map_to_events(element.children)

element_to_events(element) ==
    IF element.children = <<>>
    THEN <<Tag(element.name, "Empty", element.attributes)>>
    ELSE <<Tag(element.name, "Start", element.attributes)>>
         \o flat_map_to_events(element.children)
         \o <<Tag(element.name, "End", NoAttributes)>>

node_to_events(n) ==
    CASE n.node = "Element" -> element_to_events(n)
      [] n.node = "Text" -> <<Text(n.content)>>
      [] n.node = "Comment" -> <<Comment(n.content)>>
      [] n.node = "UnpaddedComment" -> <<UnpaddedComment(n.content)>>
      [] n.node = "Declaration" -> <<Declaration(n.content)>>
      [] n.node = "Instruction" -> <<Instruction(n.content)>>

\* A plausible slip: the trailing nodes are chained before the root element.
to_events_followers_first(doc) ==
    flat_map_to_events(doc.prolog)
    \o flat_map_to_events(doc.misc_followers)
    \o element_to_events(doc.svg)

to_events(doc) ==
    flat_map_to_events(doc.prolog)
    \o element_to_events(doc.svg)
    \o flat_map_to_events(doc.misc_followers)

(***************************************************************************)
(* parser/writer.rs: the composer's Writer.  A writer is its sink and its   *)
(* initial_event_written flag.  The sink is what has been written to it    *)
(* (destination) and what it will do with the writes to come (faults): it  *)
(* accepts `after` more writes, then fails one write after taking `short`  *)
(* of its characters, then accepts every write again; `after` is -1 for a  *)
(* sink that never fails.  error is the io::Result the last call returned. *)
(***************************************************************************)
NoFaults == [after |-> -1, short |-> 0]

FaultyWriter(sink, flag, faults) ==
    [destination |-> sink, initial_event_written |-> flag, faults |-> faults,
     error |-> FALSE]

Writer(sink, flag) == FaultyWriter(sink, flag, NoFaults)

\* write!(self.destination, ...): one formatted write to the sink.  Nothing
\* is handed to the sink for an empty text.
write_fmt(w, s) ==
    IF s = <<>> THEN w
    ELSE IF w.faults.after = 0
    THEN [w EXCEPT !.destination =
                       @ \o SubSeq(s, 1, IF w.faults.short < Len(s)
                                         THEN w.faults.short ELSE Len(s) - 1),
                   !.faults = NoFaults,
                   !.error = TRUE]
    ELSE [w EXCEPT !.destination = @ \o s,
                   !.faults.after = IF @ < 0 THEN @ ELSE @ - 1]

\* Byte order of the characters attribute names are sorted by.
Bytes ==
    <<"\t", "\n", "\r", " ", "!", "\"", "#", "$", "%", "&", "'", "(", ")", "*",
      "+", ",", "-", ".", "/", "0", "1", "2", "3", "4", "5", "6", "7", "8", "9",
      ":", ";", "<", "=", ">", "?", "@", "A", "B", "C", "D", "E", "F", "G", "H",
      "I", "J", "K", "L", "M", "N", "O", "P", "Q", "R", "S", "T", "U", "V", "W",
      "X", "Y", "Z", "[", "]", "^", "_", "a", "b", "c", "d", "e", "f",
      "g", "h", "i", "j", "k", "l", "m", "n", "o", "p", "q", "r", "s", "t", "u",
      "v", "w", "x", "y", "z", "{", "|", "}", "~">>

byte(c) == CHOOSE i \in 1..Len(Bytes) : Bytes[i] = c

\* str ordering: byte-lexicographic.
RECURSIVE str_less(_, _)
str_less(a, b) ==
    IF b = <<>> THEN FALSE
    ELSE IF a = <<>> THEN TRUE
    ELSE IF Head(a) = Head(b) THEN str_less(Tail(a), Tail(b))
    ELSE byte(Head(a)) < byte(Head(b))

\* attributes.iter(): a HashMap yields its entries in an order the program
\* does not control.  Every order of the names is a possible outcome.
iter_orders(attributes) ==
    LET names == DOMAIN attributes
        n == Cardinality(names)
    IN  {order \in [1..n -> names] :
            \A i, j \in 1..n : i # j => order[i] # order[j]}

\* One of the orders, for the callers that write a whole event.
iter(attributes) == CHOOSE order \in iter_orders(attributes) : TRUE

\* Stable insertion of one name into a sorted vector: after every name that
\* is not greater.
insert_sorted(sorted, name) ==
    LET k == Cardinality({i \in 1..Len(sorted) : ~str_less(name, sorted[i])})
    IN  SubSeq(sorted, 1, k) \o <<name>> \o SubSeq(sorted, k + 1, Len(sorted))

\* attributes.sort_by_key(|pair| pair.0.as_str()): a stable sort of the
\* collected vector by name.
RECURSIVE sort_by_key(_)
\* A plausible slip: the collected vector is written as iterated.
sort_by_key_unsorted(names) == names

sort_by_key(names) ==
    IF names = <<>> THEN <<>>
    ELSE insert_sorted(sort_by_key(SubSeq(names, 1, Len(names) - 1)),
                       names[Len(names)])

contains(value, c) == \E i \in 1..Len(value) : value[i] = c

\* Plausible slips in write_attribute: the two quote characters are swapped,
\* and a value with both quotes is written in double quotes.
write_attribute_swapped_quotes(w, name, value) ==
    IF ~contains(value, "'") \/ ~contains(value, "\"")
    THEN IF contains(value, "'")
         THEN write_fmt(w, <<" ">> \o name \o <<"=", "'">> \o value \o <<"'">>)
         ELSE write_fmt(w, <<" ">> \o name \o <<"=", "\"">> \o value \o <<"\"">>)
    ELSE w

write_attribute_keeps_both(w, name, value) ==
    IF ~contains(value, "\"") \/ contains(value, "'")
    THEN write_fmt(w, <<" ">> \o name \o <<"=", "\"">> \o value \o <<"\"">>)
    ELSE write_fmt(w, <<" ">> \o name \o <<"=", "'">> \o value \o <<"'">>)

write_attribute(w, name, value) ==
    IF ~contains(value, "\"")
    THEN write_fmt(w, <<" ">> \o name \o <<"=", "\"">> \o value \o <<"\"">>)
    ELSE IF ~contains(value, "'")
    THEN write_fmt(w, <<" ">> \o name \o <<"=", "'">> \o value \o <<"'">>)
    ELSE w

\* for (name, value) in attributes { self.write_attribute(name, value)?; }
RECURSIVE write_each_attribute(_, _, _)
write_each_attribute(w, attributes, names) ==
    IF names = <<>> THEN w
    ELSE LET a == write_attribute(w, Head(names), attributes[Head(names)]) IN
        IF a.error THEN a
        ELSE write_each_attribute(a, attributes, Tail(names))

\* write_attributes, given the order in which the map was iterated.
write_attributes_iterated(w, attributes, order) ==
    write_each_attribute(w, attributes, sort_by_key(order))

write_attributes(w, attributes) ==
    write_attributes_iterated(w, attributes, iter(attributes))

\* Plausible slips in initial_newline: the separator is never written, and
\* the separator is written before the first event too.
initial_newline_never(w) == [w EXCEPT !.initial_event_written = TRUE]

initial_newline_always(w) ==
    [write_fmt(w, <<"\n">>) EXCEPT !.initial_event_written = TRUE]

initial_newline(w) ==
    IF w.initial_event_written
    THEN write_fmt(w, <<"\n">>)
    ELSE [w EXCEPT !.initial_event_written = TRUE]

\* A plausible slip in write_start_tag: the result of writing the
\* attributes is dropped, so the closing > is written after a failure.
write_start_tag_ignores_error(w, name, attributes) ==
    LET n == initial_newline(w) IN
    IF n.error THEN n
    ELSE LET opened == write_fmt(n, <<"<">> \o name) IN
    IF opened.error THEN opened
    ELSE LET listed == write_attributes(opened, attributes) IN
    [write_fmt([listed EXCEPT !.error = FALSE], <<">">>)
        EXCEPT !.error = @ \/ listed.error]

write_start_tag(w, name, attributes) ==
    LET n == initial_newline(w) IN
    IF n.error THEN n
    ELSE LET opened == write_fmt(n, <<"<">> \o name) IN
    IF opened.error THEN opened
    ELSE LET listed == write_attributes(opened, attributes) IN
    IF listed.error THEN listed
    ELSE write_fmt(listed, <<">">>)

write_empty_tag(w, name, attributes) ==
    LET n == initial_newline(w) IN
    IF n.error THEN n
    ELSE LET opened == write_fmt(n, <<"<">> \o name) IN
    IF opened.error THEN opened
    ELSE LET listed == write_attributes(opened, attributes) IN
    IF listed.error THEN listed
    ELSE write_fmt(listed, <<"/", ">">>)

write_end_tag(w, name) ==
    LET n == initial_newline(w) IN
    IF n.error THEN n
    ELSE write_fmt(n, <<"<", "/">> \o name \o <<">">>)

\* A plausible slip in write_text: markup characters are escaped.
RECURSIVE escaped(_)
escaped(content) ==
    IF content = <<>> THEN <<>>
    ELSE (CASE Head(content) = "<" -> <<"&", "l", "t", ";">>
            [] Head(content) = "&" -> <<"&", "a", "m", "p", ";">>
            [] OTHER -> <<Head(content)>>)
         \o escaped(Tail(content))

write_text_escaped(w, content) ==
    LET n == initial_newline(w) IN
    IF n.error THEN n
    ELSE write_fmt(n, escaped(content))

write_text(w, content) ==
    LET n == initial_newline(w) IN
    IF n.error THEN n
    ELSE write_fmt(n, content)

\* A plausible slip in write_comment: the padded flag is not consulted.
write_comment_never_padded(w, content, padded) ==
    LET n == initial_newline(w) IN
    IF n.error THEN n
    ELSE write_fmt(n, <<"<", "!", "-", "-">> \o content \o <<"-", "-", ">">>)

write_comment(w, content, padded) ==
    LET n == initial_newline(w) IN
    IF n.error THEN n
    ELSE IF padded
    THEN write_fmt(n, <<"<", "!", "-", "-", " ">> \o content
                          \o <<" ", "-", "-", ">">>)
    ELSE write_fmt(n, <<"<", "!", "-", "-">> \o content \o <<"-", "-", ">">>)

write_declaration(w, content) ==
    LET n == initial_newline(w) IN
    IF n.error THEN n
    ELSE write_fmt(n, <<"<", "!">> \o content \o <<">">>)

write_instruction(w, content) ==
    LET n == initial_newline(w) IN
    IF n.error THEN n
    ELSE write_fmt(n, <<"<", "?">> \o content \o <<"?", ">">>)

\* The padded flag of the writer's Comment(content, padded) is the
\* Comment / UnpaddedComment distinction of events::Event.
write_event(w, event) ==
    CASE IsTag(event, {"Start"}) -> write_start_tag(w, event.name, event.attributes)
      [] IsTag(event, {"Empty"}) -> write_empty_tag(w, event.name, event.attributes)
      [] IsTag(event, {"End"}) -> write_end_tag(w, event.name)
      [] event.type = "Text" -> write_text(w, event.content)
      [] event.type = "Comment" -> write_comment(w, event.content, TRUE)
      [] event.type = "UnpaddedComment" -> write_comment(w, event.content, FALSE)
      [] event.type = "Declaration" -> write_declaration(w, event.content)
      [] event.type = "Instruction" -> write_instruction(w, event.content)

\* try_for_each(|event| composer.write_event(&event)): stops at the first
\* event whose write returns an error.
RECURSIVE try_for_each_write_event(_, _)
try_for_each_write_event(w, evs) ==
    IF evs = <<>> THEN w
    ELSE LET e == write_event(w, Head(evs)) IN
        IF e.error THEN e
        ELSE try_for_each_write_event(e, Tail(evs))

\* lib.rs: write
write(w, doc) == try_for_each_write_event(w, to_events(doc))

(***************************************************************************)
(* The client of Document::from_events: a caller that hands the builder an *)
(* arbitrary event sequence (node/mod.rs tests parse_basic_document,       *)
(* reject_no_tags, ...).                                                   *)
(***************************************************************************)
NotBuilt == [built |-> FALSE]

Names == {<<"a">>, <<"b">>}
Kinds == {"Start", "Empty", "End"}
SomeContent == <<"x">>

EventAlphabet ==
    {Tag(n, k, NoAttributes) : n \in Names, k \in Kinds}
    \cup {Text(SomeContent), Comment(SomeContent), UnpaddedComment(SomeContent),
          Declaration(SomeContent), Instruction(SomeContent)}

BoundedSeq(S, n) == UNION {[1..k -> S] : k \in 0..n}

InitBuild ==
    /\ events \in BoundedSeq(EventAlphabet, MaxEvents)
    /\ text = <<>>
    /\ offset = 0
    /\ document = NotBuilt
    /\ destination = <<>>
    /\ initial_event_written = FALSE
    /\ written = 0
    /\ pc = "from_events"

FromEvents ==
    /\ pc = "from_events"
    /\ document' = from_events(events)
    /\ pc' = "built"
    /\ UNCHANGED <<text, offset, events, destination, initial_event_written, written>>

NextBuild == FromEvents

SpecBuild == InitBuild /\ [][NextBuild]_vars

(***************************************************************************)
(* The document grammar of the specification, as a left-to-right scan with *)
(* an explicit stack of open element names:                                *)
(*     document := non-tag* element non-tag*                               *)
(*     element  := Start(N) node* End(N) | Empty(N)                        *)
(* Scan returns the first structural violation it meets, or "ok".          *)
(***************************************************************************)
Verdict(why, name, found, at) ==
    [why |-> why, name |-> name, found |-> found, at |-> at]

RECURSIVE Scan(_, _, _, _)
Scan(evs, i, open, seen) ==
    IF i > Len(evs)
    THEN IF open # <<>> THEN Verdict("unclosed", open[Len(open)], <<>>, i)
         ELSE IF ~seen THEN Verdict("no element", <<>>, <<>>, i)
         ELSE Verdict("ok", <<>>, <<>>, i)
    ELSE LET e == evs[i] IN
        IF e.type # "Tag" THEN Scan(evs, i + 1, open, seen)
        ELSE IF open = <<>> /\ seen THEN Verdict("second element", <<>>, e.name, i)
        ELSE IF e.kind = "Start" THEN Scan(evs, i + 1, Append(open, e.name), TRUE)
        ELSE IF e.kind = "Empty" THEN Scan(evs, i + 1, open, TRUE)
        ELSE IF open = <<>> THEN Verdict("premature end", <<>>, e.name, i)
        ELSE IF open[Len(open)] = e.name
        THEN Scan(evs, i + 1, SubSeq(open, 1, Len(open) - 1), seen)
        ELSE Verdict("mismatch", open[Len(open)], e.name, i)

Grammar(evs) == Scan(evs, 1, <<>>, FALSE)

Built == pc = "built"
Accepted == Built /\ document.ok
Rejected == Built /\ ~document.ok
Message == document.error.message

\* C3: from_events succeeds exactly on the event sequences of the document
\* grammar (non-tags, one properly nested element, non-tags) and rejects
\* every other sequence.
C3_AcceptsExactlyGrammar ==
    Built => (document.ok <=> Grammar(events).why = "ok")

C3_Witness ==
    /\ Accepted
    /\ Len(events) = 4
    /\ events[1].type # "Tag"
    /\ IsTag(events[2], {"Start"})
    /\ IsTag(events[3], {"End"})
    /\ events[4].type # "Tag"

\* C4: an element opened by Start(N) that stops collecting children at an
\* End tag of another name M fails the build with the mismatch error naming
\* N and M, at every nesting depth.
C4_MismatchRejected ==
    Built =>
        LET v == Grammar(events) IN
        v.why = "mismatch" =>
            /\ ~document.ok
            /\ Message = <<"expected </{}>, found </{}>", v.name, v.found>>

C4_Witness ==
    /\ Rejected
    /\ Len(events) >= 3
    /\ IsTag(events[1], {"Start"})
    /\ IsTag(events[2], {"Start"})
    /\ IsTag(events[3], {"End"})
    /\ events[3].name # events[2].name
    /\ Message = <<"expected </{}>, found </{}>", events[2].name, events[3].name>>

\* C5: when the events run out while an element opened by a Start tag is
\* still open, the build fails with the missing-closing-tag error for the
\* innermost open element and returns no Document.
C5_UnclosedRejected ==
    Built =>
        LET v == Grammar(events) IN
        v.why = "unclosed" =>
            /\ ~document.ok
            /\ Message = <<"missing </{}>", v.name>>

C5_Witness ==
    /\ Rejected
    /\ Len(events) = 3
    /\ IsTag(events[1], {"Start"})
    /\ IsTag(events[2], {"Start"})
    /\ events[3].type # "Tag"
    /\ Message = <<"missing </{}>", events[2].name>>

\* C6: an event sequence with no Start or Empty tag (the empty sequence
\* included) fails document construction; with no tag at all the error is
\* the no-tags error.
C6_NoElementRejected ==
    Built =>
        ((\A i \in 1..Len(events) : ~IsTag(events[i], {"Start", "Empty"})) =>
            /\ ~document.ok
            /\ (\A i \in 1..Len(events) : events[i].type # "Tag") =>
                    Message = <<"no tags in document">>)

C6_Witness ==
    /\ Rejected
    /\ Len(events) = 2
    /\ \A i \in 1..Len(events) : events[i].type # "Tag"

\* C7: in the prolog phase an End tag that comes before any Start or Empty
\* tag fails the build, whatever non-Tag events precede it.
C7_PrematureEndRejected ==
    Built =>
        \A i \in 1..Len(events) :
            (/\ IsTag(events[i], {"End"})
             /\ \A k \in 1..(i - 1) : events[k].type # "Tag") =>
                /\ ~document.ok
                /\ Message = <<"found </{}> tag before <{}> tag",
                               events[i].name, events[i].name>>

C7_Witness ==
    /\ Rejected
    /\ Len(events) >= 3
    /\ events[1].type # "Tag"
    /\ events[2].type # "Tag"
    /\ IsTag(events[3], {"End"})

\* The leaf node a non-Tag event stands for.
NodeOf(e) == [node |-> e.type, content |-> e.content]

\* The root element is complete at event j.
RootComplete(evs, j) ==
    /\ evs[j].type = "Tag"
    /\ Grammar(SubSeq(evs, 1, j)).why = "ok"

\* C8: once the root element is complete every remaining event is consumed;
\* a Tag of any kind among them fails the build, otherwise the remaining
\* Text/Comment/Declaration/Instruction events are the trailing nodes, in
\* order.
C8_TrailingPhase ==
    Built =>
        \A j \in 1..Len(events) :
            RootComplete(events, j) =>
                LET rest == SubSeq(events, j + 1, Len(events))
                    tags == {k \in 1..Len(rest) : rest[k].type = "Tag"}
                IN  IF tags # {}
                    THEN /\ ~document.ok
                         /\ Message = <<"unexpected second top-level tag">>
                         /\ \A k \in tags : j + k + 1 >= document.next
                         /\ \E k \in tags : j + k + 1 = document.next
                    ELSE /\ document.ok
                         /\ document.next = Len(events) + 1
                         /\ Len(document.value.misc_followers) = Len(rest)
                         /\ \A k \in 1..Len(rest) :
                                document.value.misc_followers[k] = NodeOf(rest[k])

C8_Witness ==
    /\ Accepted
    /\ Len(document.value.misc_followers) = 2
    /\ document.value.misc_followers[1] # document.value.misc_followers[2]

\* C10: in every Document the builder returns, the prolog and the trailing
\* list hold no Element; the only top-level Element is the root.
C10_OnlyRootIsElement ==
    Accepted =>
        /\ document.value.svg.node = "Element"
        /\ \A i \in 1..Len(document.value.prolog) :
                document.value.prolog[i].node # "Element"
        /\ \A i \in 1..Len(document.value.misc_followers) :
                document.value.misc_followers[i].node # "Element"

C10_Witness ==
    /\ Accepted
    /\ Len(document.value.prolog) >= 1
    /\ Len(document.value.misc_followers) >= 1
    /\ IsTag(events[2], {"Start"})

(***************************************************************************)
(* The tree builder on events that carry attributes.  Same client as       *)
(* SpecBuild, with the events drawn from an alphabet whose tags carry      *)
(* attribute maps (closing tags included).                                 *)
(***************************************************************************)
OneAttribute == (<<"k">> :> <<"v">>)

TreeAlphabet ==
    {Tag(<<"a">>, "Start", NoAttributes), Tag(<<"a">>, "Start", OneAttribute),
     Tag(<<"b">>, "Start", OneAttribute), Tag(<<"a">>, "End", OneAttribute),
     Tag(<<"b">>, "End", NoAttributes), Tag(<<"a">>, "Empty", OneAttribute),
     Tag(<<"b">>, "Empty", NoAttributes), Text(SomeContent), Comment(SomeContent)}

InitTree ==
    /\ events \in BoundedSeq(TreeAlphabet, MaxEvents)
    /\ text = <<>>
    /\ offset = 0
    /\ document = NotBuilt
    /\ destination = <<>>
    /\ initial_event_written = FALSE
    /\ written = 0
    /\ pc = "from_events"

SpecTree == InitTree /\ [][NextBuild]_vars

\* The closing tag of the Start tag at i, found by counting depth: the first
\* j > i at which as many End tags as Start tags have been seen since i.
RECURSIVE MatchingEnd(_, _, _)
MatchingEnd(evs, j, depth) ==
    IF j > Len(evs) THEN j
    ELSE IF IsTag(evs[j], {"Start"}) THEN MatchingEnd(evs, j + 1, depth + 1)
    ELSE IF IsTag(evs[j], {"End"})
    THEN IF depth = 1 THEN j ELSE MatchingEnd(evs, j + 1, depth - 1)
    ELSE MatchingEnd(evs, j + 1, depth)

\* The nodes the specification assigns to the events lo..hi, and the Element
\* it assigns to the Start/Empty tag at i.
RECURSIVE Forest(_, _, _)
RECURSIVE TreeAt(_, _)
Forest(evs, lo, hi) ==
    IF lo > hi THEN <<>>
    ELSE IF IsTag(evs[lo], {"Start"})
    THEN <<TreeAt(evs, lo)>> \o Forest(evs, MatchingEnd(evs, lo + 1, 1) + 1, hi)
    ELSE IF IsTag(evs[lo], {"Empty"})
    THEN <<TreeAt(evs, lo)>> \o Forest(evs, lo + 1, hi)
    ELSE <<NodeOf(evs[lo])>> \o Forest(evs, lo + 1, hi)

TreeAt(evs, i) ==
    [node |-> "Element", name |-> evs[i].name, attributes |-> evs[i].attributes,
     children |-> IF IsTag(evs[i], {"Empty"}) THEN <<>>
                  ELSE Forest(evs, i + 1, MatchingEnd(evs, i + 1, 1) - 1)]

FirstTag(evs) == CHOOSE i \in 1..Len(evs) :
    /\ evs[i].type = "Tag"
    /\ \A j \in 1..(i - 1) : evs[j].type # "Tag"

\* C11: for an accepted event sequence the root of the built tree is the
\* Element of the first tag: every Element carries the name and the attribute
\* map of its Start/Empty event, its children are the nodes of the events
\* between its Start and the matching End, in event order, and an Empty tag
\* gives a childless Element.
C11_TreeMirrorsEvents ==
    Accepted => document.value.svg = TreeAt(events, FirstTag(events))

C11_Witness ==
    /\ Accepted
    /\ document.value.svg.attributes = OneAttribute
    /\ Len(document.value.svg.children) = 2
    /\ document.value.svg.children[1].node = "Element"
    /\ document.value.svg.children[1].children = <<>>
    /\ document.value.svg.children[2].node = "Text"

(***************************************************************************)
(* Clients that start from a text.  The input texts are the concatenations *)
(* of at most MaxFrags fragments.                                          *)
(***************************************************************************)
Fragments ==
    {<<"<", "a", ">">>, <<"<", "/", "a", ">">>, <<"<", "a", "/", ">">>, <<"<", "!", "-", "-">>, <<"-", "-", ">">>,
     <<"\n">>, <<" ">>, <<"x">>}

RECURSIVE concat(_)
concat(parts) == IF parts = <<>> THEN <<>> ELSE Head(parts) \o concat(Tail(parts))

Texts == {concat(parts) : parts \in BoundedSeq(Fragments, MaxFrags)}

InitText ==
    /\ text \in Texts
    /\ offset = 0
    /\ events = <<>>
    /\ document = NotBuilt
    /\ destination = <<>>
    /\ initial_event_written = FALSE
    /\ written = 0

\* events/mod.rs tests::identity_iterator: every event the parser yields is
\* unwrapped and written with one composer.
InitCompose == InitText /\ pc = "compose"

ComposeEvent ==
    /\ pc = "compose"
    /\ LET item == next(text, offset) IN
        /\ item.some /\ item.ok
        /\ LET w == write_event(Writer(destination, initial_event_written),
                                item.event)
           IN  /\ destination' = w.destination
               /\ initial_event_written' = w.initial_event_written
        /\ events' = Append(events, item.event)
        /\ offset' = item.offset
    /\ UNCHANGED <<text, document, written, pc>>

ComposeUnwrapErr ==
    /\ pc = "compose"
    /\ LET item == next(text, offset) IN
        /\ item.some /\ ~item.ok
        /\ offset' = item.offset
    /\ pc' = "panicked"
    /\ UNCHANGED <<text, events, document, destination, initial_event_written,
                   written>>

ComposeEnd ==
    /\ pc = "compose"
    /\ LET item == next(text, offset) IN
        /\ ~item.some
        /\ offset' = item.offset
    /\ pc' = "composed"
    /\ UNCHANGED <<text, events, document, destination, initial_event_written,
                   written>>

NextCompose == ComposeEvent \/ ComposeUnwrapErr \/ ComposeEnd

SpecCompose == InitCompose /\ [][NextCompose]_vars

\* Document::from_event_parser on the text, then lib.rs write of the
\* Document to a fresh composer.
InitDoc == InitText /\ pc = "parse"

FromEventParser ==
    /\ pc = "parse"
    /\ LET collected == collect(text, 0, <<>>) IN
        /\ events' = collected.events
        /\ offset' = collected.offset
    /\ document' = from_event_parser(text)
    /\ pc' = "parsed"
    /\ UNCHANGED <<text, destination, initial_event_written, written>>

WriteDocument ==
    /\ pc = "parsed"
    /\ document.ok
    /\ LET w == write(Writer(destination, initial_event_written), document.value)
       IN  /\ destination' = w.destination
           /\ initial_event_written' = w.initial_event_written
    /\ pc' = "written"
    /\ UNCHANGED <<text, offset, events, document, written>>

NextDoc == FromEventParser \/ WriteDocument

SpecDoc == InitDoc /\ [][NextDoc]_vars

(***************************************************************************)
(* Round trips.                                                            *)
(***************************************************************************)
\* The stretch of the input each successful call of next consumed.
RECURSIVE spans(_, _)
spans(content, off) ==
    LET item == next(content, off) IN
    IF ~item.some \/ ~item.ok THEN <<>>
    ELSE <<SubSeq(content, off + 1, item.offset)>> \o spans(content, item.offset)

\* The text is in the composer's own layout: it is its tokens (each without
\* whitespace at its edges) joined by single newlines, and every tag is
\* written as <name>, <name/> or </name>.
RECURSIVE join_lines(_)
join_lines(tokens) ==
    IF tokens = <<>> THEN <<>>
    ELSE IF Len(tokens) = 1 THEN Head(tokens)
    ELSE Head(tokens) \o <<"\n">> \o join_lines(Tail(tokens))

ComposerLayout(content) ==
    LET sp == spans(content, 0)
        evs == collect(content, 0, <<>>).events
        tokens == [k \in 1..Len(sp) |-> trim(sp[k])]
    IN  /\ join_lines(tokens) = content
        /\ \A k \in 1..Len(sp) :
                evs[k].type = "Tag" =>
                    /\ evs[k].attributes = NoAttributes
                    /\ Len(tokens[k]) = Len(evs[k].name)
                                        + (IF evs[k].kind = "Start" THEN 2 ELSE 3)

\* The text tokenizes without error into a document of the grammar.
WellFormedDocument(content) ==
    LET collected == collect(content, 0, <<>>) IN
    collected.ok /\ Grammar(collected.events).why = "ok"

NoChildlessPair(evs) ==
    \A k \in 1..(Len(evs) - 1) :
        ~(IsTag(evs[k], {"Start"}) /\ IsTag(evs[k + 1], {"End"}))

RECURSIVE all_items(_, _)
all_items(content, off) ==
    LET item == next(content, off) IN
    IF ~item.some THEN <<>> ELSE <<item>> \o all_items(content, item.offset)

\* C9: when the tokenizer yields an error anywhere in the input, or the
\* events break the document grammar, from_event_parser returns an error
\* and no Document, and nothing is ever written.
C9_AllOrNothing ==
    pc \in {"parsed", "written"} =>
        LET items == all_items(text, 0)
            failed == \E k \in 1..Len(items) : ~items[k].ok
        IN  (failed \/ Grammar([k \in 1..Len(items) |-> items[k].event]).why # "ok")
                => /\ ~document.ok
                   /\ DOMAIN document = {"ok", "error", "next"}
                   /\ pc = "parsed"
                   /\ destination = <<>>

C9_Witness ==
    /\ pc = "parsed"
    /\ ~document.ok
    /\ Len(events) >= 1
    /\ Grammar(events).why = "ok"
    /\ Len(all_items(text, 0)) > Len(events)
    /\ ~all_items(text, 0)[Len(events) + 1].ok

(***************************************************************************)
(* Clients of the composer.  A client holds a sequence of events, either   *)
(* made by hand or flattened from a tree it built, and hands them to one   *)
(* Writer one at a time.                                                   *)
(***************************************************************************)
MaxWrite == 3

WriteAlphabet ==
    {Tag(<<"a">>, "Start", NoAttributes), Tag(<<"a">>, "Start", OneAttribute),
     Tag(<<"a">>, "Empty", OneAttribute), Tag(<<"b">>, "Empty", NoAttributes),
     Tag(<<"a">>, "End", NoAttributes), Tag(<<"a">>, "End", OneAttribute),
     Text(SomeContent), Text(<<"<", "&">>), Text(<<"\n">>),
     Comment(SomeContent), Comment(<<"x", " ", "-", "-", ">">>),
     UnpaddedComment(SomeContent), UnpaddedComment(<<"-", "-", ">">>),
     Declaration(SomeContent), Instruction(SomeContent)}

InitWrite ==
    /\ events \in BoundedSeq(WriteAlphabet, MaxWrite)
    /\ text = <<>>
    /\ offset = 0
    /\ document = NotBuilt
    /\ destination = <<>>
    /\ initial_event_written = FALSE
    /\ written = 0
    /\ pc \in {"from_events", "write"}

\* Document::to_events on the tree that was built.
ToEvents ==
    /\ pc = "built"
    /\ document.ok
    /\ events' = to_events(document.value)
    /\ pc' = "write"
    /\ UNCHANGED <<text, offset, document, destination, initial_event_written,
                   written>>

\* Writer::write_event on the next event.
WriteEvent ==
    /\ pc = "write"
    /\ written < Len(events)
    /\ LET w == write_event(Writer(destination, initial_event_written),
                            events[written + 1])
       IN  /\ destination' = w.destination
           /\ initial_event_written' = w.initial_event_written
    /\ written' = written + 1
    /\ UNCHANGED <<text, offset, events, document, pc>>

NextWrite == FromEvents \/ ToEvents \/ WriteEvent

SpecWrite == InitWrite /\ [][NextWrite]_vars

\* What a fresh Writer writes for one event.
written_alone(event) == write_event(Writer(<<>>, FALSE), event).destination

\* C12: after n events have been written with one Writer the output is the
\* n single-event outputs joined by single newlines: n-1 separators, none
\* before the first event and none after the last, whatever the events are.
C12_SeparatorsBetweenEvents ==
    pc = "write" =>
        /\ destination =
               join_lines([k \in 1..written |-> written_alone(events[k])])
        /\ (written >= 1 /\ events[1].type = "Tag") => Head(destination) = "<"

C12_Witness ==
    /\ pc = "write"
    /\ written = 3
    /\ events[1].type = "Tag"
    /\ events[2].type = "Text"
    /\ events[3].type = "Comment"

(***************************************************************************)
(* Clients that write one tag with an attribute map.  The maps have at     *)
(* most MaxAttributes entries; the names include one that is a prefix of   *)
(* another and an upper-case one, the values have no quote, one kind of    *)
(* quote, or both.                                                         *)
(***************************************************************************)
MaxAttributes == 2

AttributeNames == {<<"a">>, <<"a", "b">>, <<"B">>, <<"c">>}

AttributeValues == {<<"v">>, <<"'", "v">>, <<"v", "\"">>, <<"'", "\"">>}

AttributeMaps ==
    UNION {[names -> AttributeValues] :
              names \in {S \in SUBSET AttributeNames :
                            Cardinality(S) <= MaxAttributes}}

InitAttributes ==
    /\ events \in {<<Tag(<<"a">>, kind, attributes)>> :
                      kind \in {"Start", "Empty"}, attributes \in AttributeMaps}
    /\ text = <<>>
    /\ offset = 0
    /\ document = NotBuilt
    /\ destination = <<>>
    /\ initial_event_written = FALSE
    /\ written = 0
    /\ pc = "write"

\* Writer::write_attributes on the next tag's map, for every order in which
\* the map can be iterated.
WriteAttributes ==
    /\ pc = "write"
    /\ written < Len(events)
    /\ events[written + 1].type = "Tag"
    /\ \E order \in iter_orders(events[written + 1].attributes) :
           destination' =
               write_attributes_iterated(
                   Writer(destination, initial_event_written),
                   events[written + 1].attributes, order).destination
    /\ pc' = "attributes"
    /\ UNCHANGED <<text, offset, events, document, initial_event_written, written>>

NextAttributes == WriteAttributes \/ WriteEvent

SpecAttributes == InitAttributes /\ [][NextAttributes]_vars

\* The names of a map in ascending byte-lexicographic order.
Ascending(attributes) ==
    CHOOSE order \in iter_orders(attributes) :
        \A i \in 1..(Len(order) - 1) : str_less(order[i], order[i + 1])

\* C13: whatever the order in which the map is iterated, the attributes are
\* written in ascending byte-lexicographic order of their names, so the
\* output is determined by the mapping alone.
C13_AttributesSortedByName ==
    pc = "attributes" =>
        destination =
            write_each_attribute(Writer(<<>>, FALSE), events[1].attributes,
                                 Ascending(events[1].attributes)).destination

C13_Witness ==
    /\ pc = "attributes"
    /\ DOMAIN events[1].attributes = {<<"a", "b">>, <<"B">>}
    /\ \A name \in DOMAIN events[1].attributes :
           events[1].attributes[name] = <<"v">>

\* The text the specification gives for one attribute and for a tag.
Occurs(c, value) == \E i \in 1..Len(value) : value[i] = c

BothQuotes(value) == Occurs("'", value) /\ Occurs("\"", value)

Quote(value) == IF Occurs("\"", value) /\ ~Occurs("'", value) THEN "'" ELSE "\""

AttributeText(name, value) ==
    <<" ">> \o name \o <<"=", Quote(value)>> \o value \o <<Quote(value)>>

AttributesText(attributes) ==
    LET order == Ascending(attributes)
    IN  concat([i \in 1..Len(order) |->
                   AttributeText(order[i], attributes[order[i]])])

TagText(name, kind, attributes) ==
    <<"<">> \o name \o AttributesText(attributes)
        \o (IF kind = "Empty" THEN <<"/", ">">> ELSE <<">">>)

Writable(attributes) ==
    [name \in {n \in DOMAIN attributes : ~BothQuotes(attributes[n])} |->
        attributes[name]]

OneTagWritten ==
    /\ pc = "write"
    /\ written = 1
    /\ Len(events) = 1
    /\ IsTag(events[1], {"Start", "Empty"})

\* C14: when no value of a tag has both quote characters, each attribute is
\* written as name=quote value quote, where the quote is a single quote if
\* the value has a double quote and no single quote, and a double quote if
\* the value has only single quotes or no quote; the quote used does not
\* occur in the value.
C14_QuoteSelection ==
    (OneTagWritten
        /\ \A n \in DOMAIN events[1].attributes :
               ~BothQuotes(events[1].attributes[n])) =>
        /\ destination =
               TagText(events[1].name, events[1].kind, events[1].attributes)
        /\ \A n \in DOMAIN events[1].attributes :
               ~Occurs(Quote(events[1].attributes[n]), events[1].attributes[n])

C14_Witness ==
    /\ OneTagWritten
    /\ DOMAIN events[1].attributes = {<<"a">>, <<"B">>}
    /\ events[1].attributes[<<"a">>] = <<"v", "\"">>
    /\ events[1].attributes[<<"B">>] = <<"'", "v">>

\* C15: when some value of a tag has both quote characters, the output is
\* the tag with its other attributes, exactly as if the attributes with both
\* quote characters were not in the map.
C15_BothQuotesOmitted ==
    (OneTagWritten
        /\ \E n \in DOMAIN events[1].attributes :
               BothQuotes(events[1].attributes[n])) =>
        destination =
            TagText(events[1].name, events[1].kind,
                    Writable(events[1].attributes))

C15_Witness ==
    /\ OneTagWritten
    /\ DOMAIN events[1].attributes = {<<"a">>, <<"c">>}
    /\ BothQuotes(events[1].attributes[<<"a">>])
    /\ events[1].attributes[<<"c">>] = <<"v">>
    /\ destination = <<"<", "a", " ", "c", "=", "\"", "v", "\"", ">">>

(***************************************************************************)
(* The text of single events, checked on the clients of SpecWrite.         *)
(***************************************************************************)
EndsWith(s, suffix) ==
    /\ Len(suffix) <= Len(s)
    /\ SubSeq(s, Len(s) - Len(suffix) + 1, Len(s)) = suffix

\* The last write_event call wrote exactly t: alone if it was the first
\* call, after the separator otherwise.
LastWrote(t) ==
    IF written = 1 THEN destination = t
    ELSE EndsWith(destination, <<"\n">> \o t)

LastEvent == events[written]

SomethingWritten == pc = "write" /\ written >= 1

Flattened == pc = "write" /\ document # NotBuilt

\* C16: an End tag is written as </name> whether or not the event carries
\* attributes, and the End events of a flattened tree carry no attributes.
C16_EndTagHasNoAttributes ==
    /\ (SomethingWritten /\ IsTag(LastEvent, {"End"})) =>
           LastWrote(<<"<", "/">> \o LastEvent.name \o <<">">>)
    /\ Flattened =>
           \A i \in 1..Len(events) :
               IsTag(events[i], {"End"}) => events[i].attributes = NoAttributes

C16_Witness ==
    /\ SomethingWritten
    /\ written = 2
    /\ IsTag(LastEvent, {"End"})
    /\ LastEvent.attributes = OneAttribute
    /\ destination = <<"<", "a", ">", "\n", "<", "/", "a", ">">>

\* C17: a Comment is written as <!-- content --> and an UnpaddedComment as
\* <!--content-->, the content copied as it is even when it holds -->.
C17_CommentVerbatim ==
    /\ (SomethingWritten /\ LastEvent.type = "Comment") =>
           LastWrote(<<"<", "!", "-", "-", " ">> \o LastEvent.content
                         \o <<" ", "-", "-", ">">>)
    /\ (SomethingWritten /\ LastEvent.type = "UnpaddedComment") =>
           LastWrote(<<"<", "!", "-", "-">> \o LastEvent.content
                         \o <<"-", "-", ">">>)

C17_Witness ==
    /\ SomethingWritten
    /\ written = 1
    /\ LastEvent = Comment(<<"x", " ", "-", "-", ">">>)
    /\ destination = <<"<", "!", "-", "-", " ", "x", " ", "-", "-", ">", " ",
                       "-", "-", ">">>

\* C20: a Start tag is written as <name attributes>, an Empty tag as
\* <name attributes/>, a Text as its content with no escaping, a Declaration
\* as <!content> and an Instruction as <?content?>.
C20_EventText ==
    SomethingWritten =>
        /\ IsTag(LastEvent, {"Start", "Empty"}) =>
               LastWrote(TagText(LastEvent.name, LastEvent.kind,
                                 LastEvent.attributes))
        /\ LastEvent.type = "Text" => LastWrote(LastEvent.content)
        /\ LastEvent.type = "Declaration" =>
               LastWrote(<<"<", "!">> \o LastEvent.content \o <<">">>)
        /\ LastEvent.type = "Instruction" =>
               LastWrote(<<"<", "?">> \o LastEvent.content \o <<"?", ">">>)

C20_Witness ==
    /\ SomethingWritten
    /\ written = 3
    /\ events[1] = Tag(<<"a">>, "Empty", OneAttribute)
    /\ events[2] = Text(<<"<", "&">>)
    /\ events[3] = Instruction(SomeContent)
    /\ destination = <<"<", "a", " ", "k", "=", "\"", "v", "\"", "/", ">", "\n",
                       "<", "&", "\n", "<", "?", "x", "?", ">">>

(***************************************************************************)
(* Clients that turn a comment body into an event and write it.  The       *)
(* bodies are the texts of at most MaxBody characters over BodyChars.      *)
(***************************************************************************)
MaxBody == 4

BodyChars == {" ", "x", "-", ">"}

InitComment ==
    /\ text \in BoundedSeq(BodyChars, MaxBody)
    /\ offset = 0
    /\ events = <<>>
    /\ document = NotBuilt
    /\ destination = <<>>
    /\ initial_event_written = FALSE
    /\ written = 0
    /\ pc = "parse_comment_body"

ParseCommentBody ==
    /\ pc = "parse_comment_body"
    /\ events' = <<parse_comment_body(text)>>
    /\ pc' = "write"
    /\ UNCHANGED <<text, offset, document, destination, initial_event_written,
                   written>>

NextComment == ParseCommentBody \/ WriteEvent

SpecComment == InitComment /\ [][NextComment]_vars

BodyParsed == pc = "write" /\ Len(events) = 1

\* C18: a body with a leading space and a separate trailing space gives a
\* padded comment whose content is the body less one space at each end;
\* every other body, the single space included, gives an unpadded comment
\* whose content is the body.
C18_PaddingDetected ==
    BodyParsed =>
        IF Len(text) >= 2 /\ text[1] = " " /\ text[Len(text)] = " "
        THEN events[1] = Comment(SubSeq(text, 2, Len(text) - 1))
        ELSE events[1] = UnpaddedComment(text)

C18_Witness ==
    /\ BodyParsed
    /\ text = <<" ", " ", "x", " ">>
    /\ events[1] = Comment(<<" ", "x">>)

\* C19: writing the event parsed from a comment body b gives <!-- followed
\* by b followed by -->.
C19_CommentRoundTrip ==
    (BodyParsed /\ written = 1) =>
        destination = <<"<", "!", "-", "-">> \o text \o <<"-", "-", ">">>

C19_Witness ==
    /\ BodyParsed
    /\ written = 1
    /\ text = <<" ", "x", " ">>
    /\ events[1] = Comment(<<"x">>)
    /\ destination = <<"<", "!", "-", "-", " ", "x", " ", "-", "-", ">">>

(***************************************************************************)
(* Clients whose sink can fail.  At each call the sink either accepts      *)
(* every write, or fails one of the first MaxFaultAfter + 1 writes after   *)
(* taking at most MaxShort characters of it.                               *)
(***************************************************************************)
MaxFaultAfter == 8
MaxShort == 1

Faults ==
    {NoFaults}
    \cup {[after |-> a, short |-> k] : a \in 0..MaxFaultAfter, k \in 0..MaxShort}

TwoAttributes == (<<"k">> :> <<"v">>) @@ (<<"l">> :> <<"v">>)

FaultAlphabet ==
    {Tag(<<"a">>, "Start", TwoAttributes), Tag(<<"a">>, "End", NoAttributes),
     Tag(<<"b">>, "Empty", OneAttribute), Text(SomeContent), Comment(SomeContent)}

InitFault ==
    /\ events \in BoundedSeq(FaultAlphabet, MaxWrite)
    /\ text = <<>>
    /\ offset = 0
    /\ document = NotBuilt
    /\ destination = <<>>
    /\ initial_event_written = FALSE
    /\ written = 0
    /\ pc \in {"from_events", "write_event"}

\* Writer::write_event on the next event, by a client that stops at the
\* first error (`?`).
WriteEventToFaultySink ==
    /\ pc = "write_event"
    /\ written < Len(events)
    /\ \E faults \in Faults :
        LET w == write_event(
                    FaultyWriter(destination, initial_event_written, faults),
                    events[written + 1])
        IN  /\ destination' = w.destination
            /\ initial_event_written' = w.initial_event_written
            /\ pc' = IF w.error THEN "io_error" ELSE pc
    /\ written' = written + 1
    /\ UNCHANGED <<text, offset, events, document>>

\* lib::write of the built document.
WriteToFaultySink ==
    /\ pc = "built"
    /\ document.ok
    /\ \E faults \in Faults :
        LET w == write(FaultyWriter(destination, initial_event_written, faults),
                       document.value)
        IN  /\ destination' = w.destination
            /\ initial_event_written' = w.initial_event_written
            /\ pc' = IF w.error THEN "write_failed" ELSE "written"
    /\ UNCHANGED <<text, offset, events, document, written>>

NextFault == FromEvents \/ WriteEventToFaultySink \/ WriteToFaultySink

SpecFault == InitFault /\ [][NextFault]_vars

IsPrefix(p, s) == Len(p) <= Len(s) /\ SubSeq(s, 1, Len(p)) = p

IsProperPrefix(p, s) == IsPrefix(p, s) /\ Len(p) < Len(s)

\* The output of the first n of the events on a sink that never fails.
FullOutput(evs, n) == join_lines([k \in 1..n |-> written_alone(evs[k])])

\* The sink holds all of the first n - 1 events and less than all of the
\* first n.
StoppedIn(evs, n) ==
    /\ IsPrefix(FullOutput(evs, n - 1), destination)
    /\ IsProperPrefix(destination, FullOutput(evs, n))

\* C21: a write_event call that returns an error has written only a
\* beginning of its event (nothing follows the failed write, which is not
\* tried again), and a lib::write that returns an error has stopped within
\* one event and written none of the later ones: the sink holds a proper
\* prefix of the full output.  Without an error the output is complete.
C21_FailureStopsTheWrite ==
    /\ pc = "io_error" => StoppedIn(events, written)
    /\ pc = "write_event" => destination = FullOutput(events, written)
    /\ pc = "write_failed" =>
           \E n \in 1..Len(to_events(document.value)) :
               StoppedIn(to_events(document.value), n)
    /\ pc = "written" =>
           destination = FullOutput(to_events(document.value),
                                    Len(to_events(document.value)))

C21_Witness ==
    /\ pc = "write_failed"
    /\ Len(to_events(document.value)) = 3
    /\ destination = <<"<", "a", " ", "k", "=", "\"", "v", "\"", " ", "l", "=",
                       "\"", "v", "\"", ">", "\n", "x">>

(***************************************************************************)
(* Clients that iterate the tokenizer and go on calling next after an      *)
(* error.  The input texts are the concatenations of at most MaxPieces     *)
(* pieces: openers and closers of every construct, text and whitespace.    *)
(***************************************************************************)
MaxPieces == 4

TokenPieces ==
    {<<"<", "!", "-", "-">>, <<"-", "-", ">">>, <<"<", "!">>, <<"<", "?">>,
     <<"?", ">">>, <<"<">>, <<">">>, <<"x">>, <<" ">>}

InitTokens ==
    /\ text \in {concat(parts) : parts \in BoundedSeq(TokenPieces, MaxPieces)}
    /\ offset = 0
    /\ events = <<>>
    /\ document = NotBuilt
    /\ destination = <<>>
    /\ initial_event_written = FALSE
    /\ written = 0
    /\ pc = "next"

\* parser.next() returns Some(Ok(event)).
TokenEvent ==
    /\ pc = "next"
    /\ LET item == next(text, offset) IN
        /\ item.some /\ item.ok
        /\ events' = Append(events, item.event)
        /\ offset' = item.offset
    /\ UNCHANGED <<text, document, destination, initial_event_written, written, pc>>

\* parser.next() returns Some(Err(error)); the client keeps the error.
TokenError ==
    /\ pc = "next"
    /\ LET item == next(text, offset) IN
        /\ item.some /\ ~item.ok
        /\ document' = [ok |-> FALSE, error |-> item.error]
        /\ offset' = item.offset
    /\ pc' = "error"
    /\ UNCHANGED <<text, events, destination, initial_event_written, written>>

\* parser.next() returns None.
TokenEnd ==
    /\ pc = "next"
    /\ LET item == next(text, offset) IN
        /\ ~item.some
        /\ offset' = item.offset
    /\ pc' = "end"
    /\ UNCHANGED <<text, events, document, destination, initial_event_written,
                   written>>

\* parser.next() once more, after an error.
TokenAfterError ==
    /\ pc = "error"
    /\ LET item == next(text, offset) IN
        /\ offset' = item.offset
        /\ events' = IF item.some /\ item.ok THEN Append(events, item.event)
                     ELSE events
        /\ pc' = IF ~item.some THEN "end_after_error"
                 ELSE IF item.ok THEN "event_after_error"
                 ELSE "error_after_error"
    /\ UNCHANGED <<text, document, destination, initial_event_written, written>>

NextTokens == TokenEvent \/ TokenError \/ TokenEnd \/ TokenAfterError

SpecTokens == InitTokens /\ [][NextTokens]_vars

\* The offset of the first < at or after off, or the end of the text.
AngleFrom(content, off) ==
    IF \E j \in (off + 1)..Len(content) : content[j] = "<"
    THEN (CHOOSE j \in (off + 1)..Len(content) :
             /\ content[j] = "<"
             /\ \A k \in (off + 1)..(j - 1) : content[k] # "<") - 1
    ELSE Len(content)

RunFrom(content, off) == SubSeq(content, off + 1, AngleFrom(content, off))

Blank(s) == \A i \in 1..Len(s) : s[i] \in Whitespace

\* What a step is due to produce, by the text at the cursor.
Upcoming(content, off) ==
    LET at == AngleFrom(content, off) IN
    IF ~Blank(RunFrom(content, off)) THEN "Text"
    ELSE IF at = Len(content) THEN "None"
    ELSE IF starts_with(content, at, <<"<", "!", "-", "-">>) THEN "Comment"
    ELSE IF starts_with(content, at, <<"<", "!">>) THEN "Declaration"
    ELSE IF starts_with(content, at, <<"<", "?">>) THEN "Instruction"
    ELSE "Tag"

Kinds22 ==
    [Comment |-> {"Comment", "UnpaddedComment"}, Declaration |-> {"Declaration"},
     Instruction |-> {"Instruction"}, Tag |-> {"Tag"}]

Errors22 ==
    [Comment |-> {<<"found a malformed comment">>},
     Declaration |-> {<<"found a malformed declaration">>},
     Instruction |-> {<<"found a malformed instruction">>},
     Tag |-> {<<"found a malformed tag">>, <<"found a malformed tag name">>,
              <<"found a malformed attribute">>}]

Emitted(kinds) ==
    /\ Len(events') = Len(events) + 1
    /\ events'[Len(events')].type \in kinds

Failed(messages) ==
    /\ pc' \in {"error", "error_after_error"}
    /\ events' = events
    /\ pc' = "error" => document'.error.message \in messages

\* The claim as written: every non-empty run of text before the next < is
\* emitted as a Text event.
C22_NonEmptyRunIsText ==
    [][(pc = "next" /\ RunFrom(text, offset) # <<>>) => Emitted({"Text"})]_vars

\* A step yields what the text at the cursor makes due.
StepYieldsWhatIsDue ==
    pc \in {"next", "error"} =>
        LET due == Upcoming(text, offset) IN
        IF due = "Text"
        THEN /\ Emitted({"Text"})
             /\ events'[Len(events')] = Text(trim(RunFrom(text, offset)))
        ELSE IF due = "None"
        THEN events' = events /\ pc' \in {"end", "end_after_error"}
        ELSE Emitted(Kinds22[due]) \/ Failed(Errors22[due])

\* C22: at each step a text run before the next < that is not only
\* whitespace is emitted (trimmed) as Text first; otherwise the construct at
\* that < is a comment if it begins <!--, else a declaration if it begins
\* <!, else an instruction if it begins <?, else a tag, and the step yields
\* an event of that kind or that construct's error; with no < left the
\* sequence ends.
C22_TextThenPrefixPrecedence == [][StepYieldsWhatIsDue]_vars

C22_Witness ==
    /\ pc = "next"
    /\ text = <<"x", " ", "<", "!", "-", "-", "-", "-", ">">>
    /\ events = <<Text(<<"x">>), UnpaddedComment(<<>>)>>

\* The errors the tokenizer raises itself (the others come from Tag::parse).
TokenizerErrors ==
    {<<"found a malformed comment">>, <<"found a malformed declaration">>,
     <<"found a malformed instruction">>, <<"found a malformed tag">>,
     <<"found an unknown sequence">>}

HasAfter(content, from, pattern) ==
    \E j \in from..(Len(content) - Len(pattern)) : starts_with(content, j, pattern)

\* The construct that is due at the cursor has no closing delimiter.
Unterminated(content, off) ==
    LET at == AngleFrom(content, off)
        due == Upcoming(content, off)
    IN  \/ due = "Comment" /\ ~HasAfter(content, at + 4, <<"-", "-", ">">>)
        \/ due = "Declaration" /\ ~HasAfter(content, at + 2, <<">">>)
        \/ due = "Instruction" /\ ~HasAfter(content, at + 2, <<"?", ">">>)
        \/ due = "Tag" /\ ~HasAfter(content, at + 1, <<">">>)

\* A step at an unterminated construct yields that construct's error at
\* the reader's position, and the step after such an error yields None.
MalformedStep ==
    /\ (pc = "next" /\ Unterminated(text, offset)) =>
           /\ pc' = "error"
           /\ events' = events
           /\ document'.error.message \in
                  Errors22[Upcoming(text, offset)] \cap TokenizerErrors
           /\ document'.error.position = offset'
    /\ (pc = "error" /\ document.error.message \in TokenizerErrors) =>
           /\ pc' = "end_after_error"
           /\ events' = events

\* C23: an unterminated comment, declaration, instruction or tag makes the
\* tokenizer yield an error that carries the reader's position, and after
\* an error of the tokenizer's own no further item is produced.
C23_MalformedInputEndsSequence == [][MalformedStep]_vars

C23_Witness ==
    /\ pc = "end_after_error"
    /\ text = <<"x", "<", "!", "-", "-", "x">>
    /\ events = <<Text(<<"x">>)>>
    /\ document.error =
           [position |-> 6, message |-> <<"found a malformed comment">>]

\* The first item the tokenizer yielded is a Text event (an event appended
\* after an error is not the first item).
FirstIsText ==
    /\ Len(events) >= 1
    /\ events[1].type = "Text"
    /\ pc = "event_after_error" => Len(events) >= 2

\* The first event holds the leading run as it stands in the input, its
\* trailing whitespace included.
C24_TextHoldsRunVerbatim ==
    FirstIsText => events[1].content \in
                      {RunFrom(text, 0), trim_start(RunFrom(text, 0))}

\* C24: a text run stops only at `<`, never at `>`, and the Text event holds
\* the run with the whitespace at its two ends removed.
C24_TextHoldsTrimmedRun ==
    FirstIsText => events[1].content = trim(RunFrom(text, 0))

C24_Witness ==
    /\ text = <<"x", ">", " ", "<">>
    /\ events = <<Text(<<"x", ">">>)>>

\* C25: the content of a Text event is never empty and neither begins nor
\* ends with whitespace.
C25_TextHasNoOuterWhitespace ==
    \A i \in 1..Len(events) :
        events[i].type = "Text" =>
            /\ events[i].content # <<>>
            /\ events[i].content[1] \notin Whitespace
            /\ events[i].content[Len(events[i].content)] \notin Whitespace

C25_Witness ==
    /\ text = <<" ", "x", " ", "<">>
    /\ events = <<Text(<<"x">>)>>

CommentOpen == <<"<", "!", "-", "-">>
CommentClose == <<"-", "-", ">">>

\* The input opens with a comment whose first closing delimiter starts
\* after offset j.
ClosesFirstAt(content, j) ==
    /\ starts_with(content, 0, CommentOpen)
    /\ j \in 4..(Len(content) - 3)
    /\ starts_with(content, j, CommentClose)
    /\ \A k \in 4..(j - 1) : ~starts_with(content, k, CommentClose)

FirstIsComment ==
    /\ Len(events) >= 1
    /\ events[1].type \in {"Comment", "UnpaddedComment"}
    /\ pc = "event_after_error" => Len(events) >= 2

\* C28: a comment token ends at the first `-->` after its opener: the
\* event holds what lies between the two (less one space of padding at
\* each end), the cursor is left right after that `-->`, and no comment
\* event has content containing `-->`.
C28_CommentEndsAtFirstClose ==
    /\ \A i \in 1..Len(events) :
           events[i].type \in {"Comment", "UnpaddedComment"} =>
               ~HasAfter(events[i].content, 0, CommentClose)
    /\ \A j \in 4..Len(text) :
           (ClosesFirstAt(text, j) /\ (Len(events) >= 1 \/ pc = "end")) =>
               /\ FirstIsComment
               /\ events[1].content \in
                      {SubSeq(text, 5, j), SubSeq(text, 6, j - 1)}
               /\ (pc = "next" /\ Len(events) = 1) => offset = j + 3

C28_Witness ==
    /\ text = CommentOpen \o <<"x">> \o CommentClose \o CommentClose
    /\ events = <<UnpaddedComment(<<"x">>), Text(CommentClose)>>

(***************************************************************************)
(* The tokenizer over texts made of tags: the same client as above, on     *)
(* inputs built from tag openers, quoted attribute values and closers.     *)
(***************************************************************************)
MaxTagPieces == 5

TagPieces ==
    {<<"<", "x">>, <<" ", "k", "=", "\"">>, <<" ", "k", "=", "'">>,
     <<"\"">>, <<"'">>, <<">">>, <<"/", ">">>, <<" ">>}

InitTags ==
    /\ text \in {concat(parts) : parts \in BoundedSeq(TagPieces, MaxTagPieces)}
    /\ offset = 0
    /\ events = <<>>
    /\ document = NotBuilt
    /\ destination = <<>>
    /\ initial_event_written = FALSE
    /\ written = 0
    /\ pc = "next"

SpecTags == InitTags /\ [][NextTokens]_vars

\* The first item the tokenizer yielded is the event `event`.
FirstItemIs(event) ==
    /\ Len(events) >= 1
    /\ events[1] = event
    /\ pc = "event_after_error" => Len(events) >= 2

SomeItemYielded == Len(events) >= 1 \/ pc # "next"

\* The number of whitespace characters the text begins with.
Lead(content) == Len(content) - Len(trim_start(content))

\* C26: when the input, after any leading whitespace, begins with `<x>` the
\* first item is the Start tag x, and when it begins with `<x/>` the Empty
\* tag x; no Text event comes before it.
C26_FirstTagAfterWhitespace ==
    LET t == trim_start(text) IN
    /\ (starts_with(t, 0, <<"<", "x", ">">>) /\ SomeItemYielded) =>
           FirstItemIs(Tag(<<"x">>, "Start", NoAttributes))
    /\ (starts_with(t, 0, <<"<", "x", "/", ">">>) /\ SomeItemYielded) =>
           FirstItemIs(Tag(<<"x">>, "Empty", NoAttributes))

C26_Witness ==
    /\ text = <<" ", " ", "<", "x", "/", ">">>
    /\ events = <<Tag(<<"x">>, "Empty", NoAttributes)>>
    /\ pc = "end"

\* The text opens a tag x with one attribute k whose value is quoted by q
\* and closed by the quote at index m (the first q after the opening one).
QuotedValueEndsAt(t, q, m) ==
    /\ starts_with(t, 0, <<"<", "x", " ", "k", "=", q>>)
    /\ m \in 7..Len(t)
    /\ t[m] = q
    /\ \A n \in 7..(m - 1) : t[n] # q

\* C27: a tag ends at the first `>` outside a quoted attribute value: when
\* the input begins with `<x k=`, a quoted value and `>` (or `/>`), the
\* first item is the one tag x whose attribute k holds the whole value,
\* any `>` in it included, and the cursor is left after the closing `>`.
C27_QuotedCloseDoesNotEndTag ==
    LET t == trim_start(text) IN
    \A q \in Quotes : \A m \in 7..Len(t) :
        (QuotedValueEndsAt(t, q, m) /\ SomeItemYielded) =>
            LET value == SubSeq(t, 7, m - 1) IN
            /\ starts_with(t, m, <<">">>) =>
                   /\ FirstItemIs(Tag(<<"x">>, "Start", (<<"k">> :> value)))
                   /\ (pc = "next" /\ Len(events) = 1) =>
                          offset = Lead(text) + m + 1
            /\ starts_with(t, m, <<"/", ">">>) =>
                   /\ FirstItemIs(Tag(<<"x">>, "Empty", (<<"k">> :> value)))
                   /\ (pc = "next" /\ Len(events) = 1) =>
                          offset = Lead(text) + m + 2

C27_Witness ==
    /\ text = <<"<", "x", " ", "k", "=", "'", ">", "'", ">">>
    /\ events = <<Tag(<<"x">>, "Start", (<<"k">> :> <<">">>))>>
    /\ pc = "end"

\* Document::from_event_parser returned an error.
BuildFailed == pc = "parsed" /\ ~document.ok

\* The error of a failed build carries a position offset and a message, as
\* the tokenizer's errors do.
C29_BuilderErrorIsPositioned ==
    BuildFailed => DOMAIN document.error = {"position", "message"}

\* C29: an error of the tree builder carries a message and nothing else;
\* the tokenizer's error carries a position offset and a message, and when
\* the tokenizer fails the builder's message is that error rendered.
C29_BuilderErrorHasMessageOnly ==
    BuildFailed =>
        /\ DOMAIN document.error = {"message"}
        /\ LET collected == collect(text, 0, <<>>) IN
            ~collected.ok =>
                /\ DOMAIN collected.error = {"position", "message"}
                /\ document.error.message =
                       <<"{}", collected.error.position, collected.error.message>>

\* The builder itself raised the error: the tokenizer delivered its events.
C29_Witness ==
    /\ BuildFailed
    /\ collect(text, 0, <<>>).ok
    /\ events # <<>>

(***************************************************************************)
(* Flattening trees made by hand (GenericElement::new_from, Document from  *)
(* a builder or from an element): a client holds a Document and flattens   *)
(* either the whole of it or its svg element.                              *)
(***************************************************************************)
MaxDepth == 2
MaxChildren == 2

ElementNames == {<<"a">>, <<"b">>}

RECURSIVE Nodes(_)
Elements(depth) ==
    {GenericElement(name, attributes, children) :
        name \in ElementNames,
        attributes \in {NoAttributes},
        children \in BoundedSeq(Nodes(depth - 1), MaxChildren)}

Nodes(depth) ==
    IF depth = 0 THEN {NodeText(SomeContent)}
    ELSE {NodeText(SomeContent)} \cup Elements(depth)

InitFlatten ==
    /\ document \in
           {[ok |-> TRUE, value |-> Document(prolog, svg, misc_followers)] :
               prolog \in {<<>>, <<NodeDeclaration(SomeContent)>>,
                           <<NodeDeclaration(SomeContent), NodeComment(SomeContent)>>,
                           <<NodeComment(SomeContent), NodeDeclaration(SomeContent)>>},
               svg \in {[element EXCEPT !.attributes = attributes] :
                           element \in Elements(MaxDepth),
                           attributes \in {NoAttributes, OneAttribute}},
               misc_followers \in {<<>>, <<NodeComment(SomeContent)>>,
                                   <<NodeText(SomeContent), NodeComment(SomeContent)>>}}
    /\ events = <<>>
    /\ text = <<>>
    /\ offset = 0
    /\ destination = <<>>
    /\ initial_event_written = FALSE
    /\ written = 0
    /\ pc = "tree"

\* document.to_events().collect()
FlattenDocument ==
    /\ pc = "tree"
    /\ events' = to_events(document.value)
    /\ pc' = "document_flattened"
    /\ UNCHANGED <<text, offset, document, destination, initial_event_written,
                   written>>

\* document.get_svg().to_events().collect()
FlattenElement ==
    /\ pc = "tree"
    /\ events' = element_to_events(document.value.svg)
    /\ pc' = "element_flattened"
    /\ UNCHANGED <<text, offset, document, destination, initial_event_written,
                   written>>

\* Document::from_events(events) on the flattened events.
Rebuild ==
    /\ pc = "document_flattened"
    /\ document' = from_events(events)
    /\ pc' = "rebuilt"
    /\ UNCHANGED <<text, offset, events, destination, initial_event_written,
                   written>>

NextFlatten == FlattenDocument \/ FlattenElement \/ Rebuild

SpecFlatten == InitFlatten /\ [][NextFlatten]_vars

\* A stack scan: a Start tag opens its name, an End tag must close the name
\* opened last, and nothing is left open at the end.
RECURSIVE WellNested(_, _, _)
WellNested(evs, i, open) ==
    IF i > Len(evs) THEN open = <<>>
    ELSE IF IsTag(evs[i], {"Start"})
    THEN WellNested(evs, i + 1, Append(open, evs[i].name))
    ELSE IF IsTag(evs[i], {"End"})
    THEN /\ open # <<>>
         /\ open[Len(open)] = evs[i].name
         /\ WellNested(evs, i + 1, SubSeq(open, 1, Len(open) - 1))
    ELSE WellNested(evs, i + 1, open)

\* C30: the events a Document or an Element is flattened to are well
\* nested: every Start tag is closed later by an End tag of the same name,
\* in stack order, and no End tag comes without an open Start tag.
C30_FlattenedIsWellNested ==
    pc \in {"document_flattened", "element_flattened"} =>
        WellNested(events, 1, <<>>)

\* a holding b holding text and then an empty a: two levels are open at once.
C30_Witness ==
    /\ pc = "document_flattened"
    /\ events = <<Tag(<<"a">>, "Start", NoAttributes),
                  Tag(<<"b">>, "Start", NoAttributes),
                  Text(SomeContent),
                  Tag(<<"b">>, "End", NoAttributes),
                  Tag(<<"a">>, "Empty", NoAttributes),
                  Tag(<<"a">>, "End", NoAttributes)>>

\* C31: a childless Element is flattened to exactly one Empty tag with its
\* name and attributes; an Element with children to a Start tag with its
\* name and attributes, then the events of its children in child order,
\* then an End tag of the same name.
C31_ElementToEvents ==
    pc = "element_flattened" =>
        LET element == document.value.svg
            last == Len(events)
        IN  /\ element.children = <<>> =>
                   events = <<Tag(element.name, "Empty", element.attributes)>>
            /\ element.children # <<>> =>
                   /\ last >= 3
                   /\ events[1] = Tag(element.name, "Start", element.attributes)
                   /\ IsTag(events[last], {"End"})
                   /\ events[last].name = element.name
                   /\ Forest(events, 2, last - 1) = element.children

C31_Witness ==
    /\ pc = "element_flattened"
    /\ document.value.svg.attributes = OneAttribute
    /\ Len(document.value.svg.children) = 2
    /\ document.value.svg.children[1].node = "Text"
    /\ document.value.svg.children[2].node = "Element"
    /\ document.value.svg.children[2].children # <<>>

\* The one event of a node that is not an Element.
EventOf(n) == [type |-> n.node, content |-> n.content]

\* C32: the events of a Document are its prolog's events in stored order,
\* then the events of the root element and of nothing else, then the
\* trailing nodes' events in stored order.
C32_DocumentToEvents ==
    pc = "document_flattened" =>
        LET doc == document.value
            p == Len(doc.prolog)
            f == Len(doc.misc_followers)
            n == Len(events)
        IN  /\ n >= p + 1 + f
            /\ \A i \in 1..p : events[i] = EventOf(doc.prolog[i])
            /\ IsTag(events[p + 1], {"Start", "Empty"})
            /\ TreeAt(events, p + 1) = doc.svg
            /\ IF IsTag(events[p + 1], {"Empty"}) THEN n - f = p + 1
               ELSE MatchingEnd(events, p + 2, 1) = n - f
            /\ \A i \in 1..f : events[n - f + i] = EventOf(doc.misc_followers[i])

C32_Witness ==
    /\ pc = "document_flattened"
    /\ Len(document.value.prolog) = 2
    /\ Len(document.value.misc_followers) = 2
    /\ document.value.svg.children # <<>>
    /\ Len(events) >= 7

RebuildGivesTheSame ==
    (pc = "document_flattened" /\ pc' = "rebuilt") =>
        /\ document'.ok
        /\ document'.value = document.value

\* C33: building a Document from the flattened events of a Document whose
\* prolog and trailing nodes are not Elements succeeds and gives a Document
\* equal to it: same prolog, same root tree, same trailing nodes.
C33_FlattenThenBuildIsIdentity == [][RebuildGivesTheSame]_vars

C33_Witness ==
    /\ pc = "rebuilt"
    /\ document.ok
    /\ Len(document.value.prolog) = 2
    /\ Len(document.value.misc_followers) = 2
    /\ document.value.svg.attributes = OneAttribute
    /\ Len(document.value.svg.children) = 2
    /\ document.value.svg.children[1].node = "Element"
    /\ document.value.svg.children[1].children # <<>>

(***************************************************************************)
(* node/element/mod.rs, node/mod.rs: the editing primitives.  Attributes   *)
(* is a HashMap, a function from names to values; Children is a Vec.       *)
(***************************************************************************)
\* HashMap::insert
insert(attributes, name, value) ==
    [n \in DOMAIN attributes \cup {name} |->
        IF n = name THEN value ELSE attributes[n]]

\* A plausible slip: the node is put in front of the children.
append_in_front(element, node) ==
    [element EXCEPT !.children = <<node>> \o @]

append(element, node) ==
    [element EXCEPT !.children = Append(@, node)]

assign(element, name, value) ==
    [element EXCEPT !.attributes = insert(@, name, value)]

add(doc, node) == [doc EXCEPT !.svg = append(@, node)]

set(doc, name, value) == [doc EXCEPT !.svg = assign(@, name, value)]

\* A client edits a new Document by calls of add and set.
MaxAdds == 3

AddedNodes ==
    {NodeText(SomeContent), NodeComment(SomeContent),
     GenericElement(<<"b">>, NoAttributes, <<>>)}

SetNames == {<<"k">>, <<"l">>}

SetValues == {<<"v">>, <<"w">>}

InitEdit ==
    /\ document = [ok |-> TRUE,
                   value |-> Document(<<>>,
                                GenericElement(<<"s", "v", "g">>, NoAttributes, <<>>),
                                <<>>)]
    /\ events = <<>>
    /\ text = <<>>
    /\ offset = 0
    /\ destination = <<>>
    /\ initial_event_written = FALSE
    /\ written = 0
    /\ pc = "new"

Add ==
    /\ Len(document.value.svg.children) < MaxAdds
    /\ \E node \in AddedNodes :
           document' = [document EXCEPT !.value = add(@, node)]
    /\ pc' = "added"
    /\ UNCHANGED <<text, offset, events, destination, initial_event_written,
                   written>>

Set ==
    /\ \E name \in SetNames, value \in SetValues :
           document' = [document EXCEPT !.value = set(@, name, value)]
    /\ pc' = "set"
    /\ UNCHANGED <<text, offset, events, destination, initial_event_written,
                   written>>

NextEdit == Add \/ Set

SpecEdit == InitEdit /\ [][NextEdit]_vars

\* What a call of add and a call of set leave behind.
EditKeepsTheRest ==
    LET before == document.value
        after == document'.value
    IN  /\ after.prolog = before.prolog
        /\ after.misc_followers = before.misc_followers
        /\ after.svg.name = before.svg.name
        /\ pc' = "added" =>
               /\ after.svg.attributes = before.svg.attributes
               /\ Len(after.svg.children) = Len(before.svg.children) + 1
               /\ after.svg.children[Len(after.svg.children)] \in AddedNodes
               /\ \A i \in 1..Len(before.svg.children) :
                      after.svg.children[i] = before.svg.children[i]
        /\ pc' = "set" =>
               /\ after.svg.children = before.svg.children
               /\ \E name \in SetNames :
                      /\ DOMAIN after.svg.attributes =
                             DOMAIN before.svg.attributes \cup {name}
                      /\ after.svg.attributes[name] \in SetValues
                      /\ \A other \in DOMAIN before.svg.attributes \ {name} :
                             after.svg.attributes[other] =
                                before.svg.attributes[other]

UnknownSequence == <<"found an unknown sequence">>

\* C35: when the text attempt at the cursor yields nothing, what is left
\* either is empty, and then the call yields None, or begins with `<`; no
\* call yields the error "found an unknown sequence", and a sequence that
\* has ended without an error has read the whole input.
C35_UnknownSequenceNeverRaised ==
    /\ pc \in {"next", "error"} =>
           LET t == next_text(text, offset)
               item == next(text, offset)
           IN  /\ ~t.some =>
                      /\ t.offset = Len(text) \/ text[t.offset + 1] = "<"
                      /\ t.offset = Len(text) => ~item.some
               /\ (item.some /\ ~item.ok) => item.error.message # UnknownSequence
    /\ pc \in {"error", "end_after_error", "event_after_error",
               "error_after_error"} =>
           document.error.message # UnknownSequence
    /\ pc = "end" => offset = Len(text) /\ document = NotBuilt

\* Whitespace, a declaration, whitespace: the text attempt yields nothing
\* before the `<` and nothing again before the end of the input.
C35_Witness ==
    /\ pc = "end"
    /\ text = <<" ", "<", "!", ">", " ">>
    /\ events = <<Declaration(<<>>)>>
    /\ offset = 5

\* The client's loop of calls is over.
TokensDone ==
    pc \in {"end", "end_after_error", "event_after_error", "error_after_error"}

\* A call never moves the cursor backwards or past the end of the input; a
\* call that returns an event has moved it forward, so there are never more
\* events than characters read; and a call after which the client calls
\* again has returned an event.
CursorAdvances ==
    /\ offset <= offset'
    /\ offset' <= Len(text)
    /\ Len(events') > Len(events) => offset < offset'
    /\ Len(events') <= offset'
    /\ ~TokensDone' =>
           \/ pc' = "next" /\ Len(events') = Len(events) + 1
           \/ pc' = "error" /\ pc = "next"

\* C36: the cursor never moves backwards, a call of next that returns an
\* event has moved it forward by at least one character, and every other
\* call returns None or an error: the distance of the cursor from the end
\* of the input bounds the number of calls, so the calls come to an end.
C36_TokenizerTerminates == [][CursorAdvances]_vars

C36_Witness ==
    /\ pc = "end"
    /\ text = <<"x", "<", "!", "-", "-", "-", "-", ">">>
    /\ events = <<Text(<<"x">>), UnpaddedComment(<<>>)>>
    /\ offset = Len(text)

\* The index of the event that ends the root element opened at `first`.
RootEnd(evs, first) ==
    IF IsTag(evs[first], {"Empty"}) THEN first
    ELSE MatchingEnd(evs, first + 1, 1)

\* C37: from_events returns on every event sequence with the iterator
\* somewhere in it, and when it returns a Document the iterator is at the
\* end and every event is accounted for once and in order: the events
\* before the first tag are the prolog nodes, the events from that tag to
\* its matching End are the root element, and the events after it are the
\* trailing nodes.
C37_EveryEventConsumedOnce ==
    /\ Built => document.next \in 1..(Len(events) + 1)
    /\ Accepted =>
           LET doc == document.value
               first == FirstTag(events)
               last == RootEnd(events, first)
           IN  /\ document.next = Len(events) + 1
               /\ Len(doc.prolog) = first - 1
               /\ \A i \in 1..(first - 1) : doc.prolog[i] = NodeOf(events[i])
               /\ last \in first..Len(events)
               /\ doc.svg = TreeAt(events, first)
               /\ Len(doc.misc_followers) = Len(events) - last
               /\ \A i \in 1..(Len(events) - last) :
                      doc.misc_followers[i] = NodeOf(events[last + i])

\* One prolog node, a root that is a Start/End pair, one trailing node.
C37_Witness ==
    /\ Accepted
    /\ Len(events) = 4
    /\ Len(document.value.prolog) = 1
    /\ IsTag(events[2], {"Start"})
    /\ Len(document.value.misc_followers) = 1
    /\ document.next = 5

\* C38: no build fails in the unreachable!() arm of process_tag or in the
\* "expected more nodes" arm of process_node, and a build that fails with
\* "found </n> tag before <n> tag" failed in process_prolog, before any
\* tag was consumed, not in process_node.
C38_DeadArmsNeverFire ==
    Rejected =>
        /\ Message[1] \notin {"unreachable", "expected more nodes"}
        /\ Message[1] = "found </{}> tag before <{}> tag" =>
               /\ document.next \in 1..Len(events)
               /\ IsTag(events[document.next], {"End"})
               /\ \A i \in 1..(document.next - 1) : events[i].type # "Tag"

\* The child loop of a Start tag took a child in and ended on the
\* exhausted sequence.
C38_Witness ==
    /\ Rejected
    /\ Message[1] = "missing </{}>"
    /\ Len(events) = 3
    /\ IsTag(events[1], {"Start"})
    /\ IsTag(events[2], {"Empty"})
    /\ events[3].type = "Text"

\* The characters the delimiters of a construct take up.
Delimiters ==
    [Comment |-> 7, Declaration |-> 3, Instruction |-> 4, Tag |-> 2]

\* A step that yields a comment, a declaration, an instruction or a tag has
\* read at least the construct's delimiters, from its `<` on, and what the
\* event holds is no longer than what lies between them.
CaptureHoldsDelimiters ==
    (pc \in {"next", "error"} /\ Len(events') = Len(events) + 1
        /\ Upcoming(text, offset) # "Text") =>
        LET due == Upcoming(text, offset)
            span == offset' - AngleFrom(text, offset)
            event == events'[Len(events')]
        IN  /\ due \in DOMAIN Delimiters
            /\ span >= Delimiters[due]
            /\ due = "Comment" =>
                   Len(event.content) \in {span - 7, span - 9}
            /\ due = "Declaration" => Len(event.content) = span - 3
            /\ due = "Instruction" => Len(event.content) = span - 4
            /\ due = "Tag" => Len(event.name) <= span - 2

\* C39: a captured comment has at least 7 characters, a declaration 3, an
\* instruction 4 and a tag 2, so the slices that strip the delimiters stay
\* within the captured text.
C39_SlicesStayInBounds == [][CaptureHoldsDelimiters]_vars

\* The shortest comment and the shortest declaration: <!----> and <!>.
C39_Witness ==
    /\ pc = "end"
    /\ text = <<"<", "!", "-", "-", "-", "-", ">", "<", "!", ">">>
    /\ events = <<UnpaddedComment(<<>>), Declaration(<<>>)>>

====
